---- MODULE Spec2Model ----
(***************************************************************************)
(* ClipMindAI clipboard monitor (src-tauri/src/clipboard/monitor.rs,       *)
(* src-tauri/src/lib.rs): the monitor objects, the process-wide statics    *)
(* they share, the observer (Win32 message loop) thread, the worker        *)
(* thread, the control task that runs the teardown, and the event bus.     *)
(*                                                                         *)
(* A session is one successful start_monitoring: it spawns one worker      *)
(* thread, one observer thread and one control task, and creates one       *)
(* WindowsMonitorContext.  Sessions are numbered 1..MaxSessions in the     *)
(* order they are created; 0 stands for None / HWND(0).                    *)
(***************************************************************************)
EXTENDS Integers, Sequences, FiniteSets, TLC

\* ---------------------------------------------------------------- bounds
MaxSessions == 2    \* sessions started in one behaviour
MaxRestarts == 2    \* sessions started one after the other (Spec)
MaxChanges  == 1    \* clipboard changes (each gets a generation number)
MaxExtra    == 1    \* repeated OS notifications raised without a change
MaxMsgs     == 1    \* WM_CLIPBOARDUPDATE messages queued per window
MaxPulses   == 1    \* pulses queued per worker channel
MaxEvents   == 2    \* events kept per event bus
MaxCmds     == 2    \* start_clipboard_monitoring calls in flight at once
MaxLibChanges == 1  \* clipboard changes while the commands drive the monitor
MaxSent     == 2    \* pulses sent to the worker that is followed through the clock
Capacity    == 1    \* events the event bus retains (the code asks for 1000)
MaxText     == 3    \* characters typed into the detector one at a time
MaxMade     == 2    \* events made by create_event
MaxClock    == 1    \* the latest time Utc::now() returns
MaxHandled  == 102  \* clipboard changes handed to the history

Monitors == 1..(IF MaxSessions > MaxRestarts THEN MaxSessions ELSE MaxRestarts)
Sessions == Monitors

\* ------------------------------------------------------- clipboard text
\* A text is a sequence of characters; ByteWidth is the UTF-8 width that
\* String::len() counts.
ByteWidth(ch) == IF ch = "e'" THEN 2 ELSE 1

RECURSIVE ByteLen(_)
ByteLen(s) == IF s = <<>> THEN 0 ELSE ByteWidth(Head(s)) + ByteLen(Tail(s))

IsWhitespace(ch) == ch \in {" ", "\n", "\t"}

RECURSIVE TrimStart(_)
TrimStart(s) ==
    IF s = <<>> THEN <<>>
    ELSE IF IsWhitespace(Head(s)) THEN TrimStart(Tail(s)) ELSE s

RECURSIVE TrimEnd(_)
TrimEnd(s) ==
    IF s = <<>> THEN <<>>
    ELSE IF IsWhitespace(s[Len(s)]) THEN TrimEnd(SubSeq(s, 1, Len(s) - 1)) ELSE s

\* str::trim
Trim(s) == TrimEnd(TrimStart(s))

\* Texts the environment puts on the clipboard.
Contents == { <<"a", "b">>, <<"c", "d">> }

NoContent == <<"-none-">>    \* Option::None of last_content

\* ---------------------------------------------------------- MonitorConfig
\* The configurations a monitor is constructed with (times in milliseconds).
\* impl Default for MonitorConfig
DefaultConfig ==
    [ min_content_length   |-> 1,
      max_content_length   |-> 100000,
      ignore_duplicates    |-> TRUE,
      ignore_short_content |-> FALSE,
      debounce_ms          |-> 60,
      retry_max            |-> 8,
      retry_initial_delay_ms |-> 10 ]

Configs ==
    [ min_content_length   : {1},
      max_content_length   : {100000},
      ignore_duplicates    : BOOLEAN,
      ignore_short_content : {FALSE},
      debounce_ms          : {60},
      retry_max            : {2},
      retry_initial_delay_ms : {10} ]

\* ------------------------------------------------------------------ state
VARIABLES
    config,               \* MonitorConfig the monitors are constructed with
    is_running,           \* ClipboardMonitor.is_running, per monitor
    control_sender,       \* ClipboardMonitor.control_sender: 0 or the session
    lastcall,             \* what the last start/stop call on the monitor
                          \* returned; "dropped" once the monitor is dropped
    bus,                  \* events sent on the monitor's broadcast channel
    nsess,                \* sessions created so far
    sessMon,              \* the monitor that created the session
    subStart,             \* bus position at which the session's receiver subscribed
    spc,                  \* start_monitoring: the step it is at, or "idle"
    GLOBAL_CONTEXT,       \* static: 0 or the session whose context it holds
    MESSAGE_LOOP_RUNNING, \* static AtomicBool
    MESSAGE_LOOP_HANDLE,  \* static: 0 or the session whose observer it joins
    ctx,                  \* WindowsMonitorContext of each session
    obs,                  \* observer thread: "none", "spawned", "loop",
                          \* "exited" (returned Ok), "failed" (returned Err);
                          \* followed statement by statement it is also at
                          \* "record", "record_lock", "record_set", "listen",
                          \* "check", "proc", "proc_lock", "proc_send"
    listening,            \* the observer's window exists and is a clipboard listener
    msgq,                 \* WM_CLIPBOARDUPDATE queued for the window
    quit,                 \* WM_QUIT posted to the observer thread
    ctl,                  \* control task: "none", "waiting", "stop", "joining", "done";
                          \* followed statement by statement it is also at
                          \* "stop_read", "stop_lock", "stop_window",
                          \* "stop_clear", "stop_handle"
    joinTarget,           \* the handle the control task took to join
    wpc,                  \* worker thread: "none", "init", "wait", "sleep",
                          \* "read", "backoff", "emit", "stopped", "failed"
    pulses,               \* pulses queued on the worker channel
    last_content,         \* run_worker's last_content
    attempt,              \* read_clipboard_with_retry's attempt
    clipboard,            \* the OS clipboard: generation and text
    extra,                \* repeated notifications raised so far
    owed,                 \* sessions that were active when the clipboard last
                          \* changed, to a text they had not just accepted,
                          \* and have not exhausted a read's retries since
    foreignAccess,        \* a thread other than a worker touched the clipboard
                          \* while a session was active
    IS_RUNNING,           \* lib.rs static (the bool behind its mutex)
    CLIPBOARD_MONITOR,    \* lib.rs static: 0 or the monitor it holds
    cmd,                  \* start_clipboard_monitoring calls in flight: how many
                          \* await the AI test, and the monitors started but
                          \* not yet stored
    proc,                 \* event-processing task of each session: position
                          \* ("none", "check", "recv", "done") and the next
                          \* bus position its receiver reads
    now,                  \* the clock (Instant::now), in milliseconds
    last_emit,            \* run_worker's last_emit
    start_time,           \* run_worker's start_time of the cycle
    delay,                \* read_clipboard_with_retry's delay
    wake,                 \* when the thread::sleep in progress ends
    slept,                \* backoff delays slept so far in the cycle
    received,             \* pulses rx.recv() has returned to the worker
    last_read,            \* the text the previous successful read returned
    nsent,                \* pulses sent to the worker so far
    lastPulse,            \* when the latest pulse was sent, and its burst
    queued,               \* the burst of each pulse queued on the channel
    cur,                  \* the burst of the pulse the cycle received
    cycles,               \* read cycles started per burst
    pending,              \* the event each worker has created and not yet sent
    accepted,             \* events created so far, in the order of creation
    sub,                  \* the receiver start_monitoring returned, per session:
                          \* how far it has moved along the bus, the events
                          \* recv() returned, and the sum of the counts its
                          \* Lagged results reported
    history,              \* CLIPBOARD_HISTORY: the items, newest first
    nhandled,             \* clipboard changes handled so far (gives the items their ids)
    input,                \* the text handed to the ContentDetector
    detected,             \* what detect returned for it
    made,                 \* the events create_event has returned
    lock,                 \* the Mutex of each WindowsMonitorContext: the
                          \* thread that holds it, <<>> when it is free
    context_arc           \* the context each observer thread and control
                          \* task last found in GLOBAL_CONTEXT

monVars  == <<is_running, control_sender, lastcall, bus>>
sessVars == <<nsess, sessMon, subStart, spc>>
globVars == <<GLOBAL_CONTEXT, MESSAGE_LOOP_RUNNING, MESSAGE_LOOP_HANDLE, ctx>>
obsVars  == <<obs, listening, msgq, quit>>
ctlVars  == <<ctl, joinTarget>>
wrkVars  == <<wpc, pulses, last_content, attempt>>
osVars   == <<clipboard, extra, owed>>
libVars  == <<IS_RUNNING, CLIPBOARD_MONITOR, cmd, proc>>

\* One worker followed through the clock, and the order of acceptance.
cycVars  == <<now, last_emit, start_time, delay, wake, slept, received,
              last_read, nsent, lastPulse, queued, cur, cycles>>
ordVars  == <<pending, accepted>>

\* The threads followed statement by statement.
syncVars == <<lock, context_arc>>

\* The subscribers of the event bus, and the ContentDetector used alone.
subVars  == <<sub, history, nhandled>>
detVars  == <<input, detected, made>>

vars == <<config, syncVars, monVars, sessVars, globVars, obsVars, ctlVars,
          wrkVars, osVars, foreignAccess, libVars, cycVars, ordVars, subVars, detVars>>

NoContext == [window_handle |-> 0, worker_tx |-> FALSE]

NoEvent == [content |-> NoContent]    \* no event created and unsent

\* ClipboardMonitor::new for every monitor, statics at their initializers,
\* no thread spawned, the clipboard holding nothing this process has seen.
InitWith(cfgs) ==
    /\ config \in cfgs
    /\ is_running = [m \in Monitors |-> FALSE]
    /\ control_sender = [m \in Monitors |-> 0]
    /\ lastcall = [m \in Monitors |-> "new"]
    /\ bus = [m \in Monitors |-> <<>>]
    /\ nsess = 0
    /\ sessMon = [s \in Sessions |-> 0]
    /\ subStart = [s \in Sessions |-> 0]
    /\ spc = "idle"
    /\ GLOBAL_CONTEXT = 0
    /\ MESSAGE_LOOP_RUNNING = FALSE
    /\ MESSAGE_LOOP_HANDLE = 0
    /\ ctx = [s \in Sessions |-> NoContext]
    /\ obs = [s \in Sessions |-> "none"]
    /\ listening = [s \in Sessions |-> FALSE]
    /\ msgq = [s \in Sessions |-> 0]
    /\ quit = [s \in Sessions |-> FALSE]
    /\ ctl = [s \in Sessions |-> "none"]
    /\ joinTarget = [s \in Sessions |-> 0]
    /\ wpc = [s \in Sessions |-> "none"]
    /\ pulses = [s \in Sessions |-> 0]
    /\ last_content = [s \in Sessions |-> NoContent]
    /\ attempt = [s \in Sessions |-> 0]
    /\ clipboard = [gen |-> 0, content |-> <<>>]
    /\ extra = 0
    /\ owed = {}
    /\ foreignAccess = FALSE
    /\ IS_RUNNING = FALSE
    /\ CLIPBOARD_MONITOR = 0
    /\ cmd = [awaiting |-> 0, started |-> {}]
    /\ proc = [s \in Sessions |-> [pc |-> "none", pos |-> 0]]
    /\ now = 0
    /\ last_emit = 0
    /\ start_time = 0
    /\ delay = 0
    /\ wake = 0
    /\ slept = 0
    /\ received = 0
    /\ last_read = NoContent
    /\ nsent = 0
    /\ lastPulse = [at |-> 0, burst |-> 0]
    /\ queued = <<>>
    /\ cur = 0
    /\ cycles = [b \in 1..MaxSent |-> 0]
    /\ pending = [s \in Sessions |-> NoEvent]
    /\ accepted = 0
    /\ sub = [s \in Sessions |-> [ahead |-> 0, got |-> <<>>, skipped |-> 0]]
    /\ history = <<>>
    /\ nhandled = 0
    /\ input = <<>>
    /\ detected = "none"
    /\ made = <<>>
    /\ lock = [g \in Sessions |-> <<>>]
    /\ context_arc = [t \in {"observer", "control"} |->
                        [s \in Sessions |-> 0]]

\* The session is the one its monitor is running now.
Active(s) ==
    /\ s \in 1..nsess
    /\ is_running[sessMon[s]]
    /\ control_sender[sessMon[s]] = s

\* The sessions the monitor has started.
SessionsOf(m) == {s \in 1..nsess : sessMon[s] = m}

\* The worker thread of the session has not returned: it holds the
\* receiver of the pulse channel.
WorkerAlive(s) ==
    wpc[s] \in {"init", "wait", "sleep", "read", "backoff", "emit"}

\* The observer thread of the session has not returned.
ObserverAlive(s) ==
    obs[s] \in {"spawned", "record", "record_lock", "record_set", "listen",
                "loop", "check", "proc", "proc_lock", "proc_send"}

\* ------------------------------------------------------ ClipboardMonitor
\* Assigning the static drops the Arc it held: the context is freed and the
\* worker_tx in it, if still there, is dropped with it.
DropContext(c, g) ==
    IF g = 0 THEN c ELSE [c EXCEPT ![g] = NoContext]

\* The body of start_monitoring once the is_running check has passed.
DoStart(m) ==
    LET s == nsess + 1 IN
    /\ s \in Sessions
    /\ is_running' = [is_running EXCEPT ![m] = TRUE]
    /\ control_sender' = [control_sender EXCEPT ![m] = s]
    /\ lastcall' = [lastcall EXCEPT ![m] = "start_ok"]
    /\ nsess' = s
    /\ sessMon' = [sessMon EXCEPT ![s] = m]
    /\ subStart' = [subStart EXCEPT ![s] = Len(bus[m])]
    /\ wpc' = [wpc EXCEPT ![s] = "init"]
    /\ ctx' = [DropContext(ctx, GLOBAL_CONTEXT) EXCEPT
                  ![s] = [window_handle |-> 0, worker_tx |-> TRUE]]
    /\ GLOBAL_CONTEXT' = s
    /\ MESSAGE_LOOP_RUNNING' = TRUE
    /\ MESSAGE_LOOP_HANDLE' = s
    /\ obs' = [obs EXCEPT ![s] = "spawned"]
    /\ ctl' = [ctl EXCEPT ![s] = "waiting"]
    /\ UNCHANGED <<config, syncVars, cycVars, ordVars, subVars, detVars,
                   bus, listening, msgq, quit, joinTarget, pulses,
                   last_content, attempt, osVars, foreignAccess, spc>>

\* start_monitoring, statement by statement, while the threads it has
\* already spawned run.  First the flag, the control channel, the
\* subscription and the pulse channel: ctx[s].worker_tx says that the
\* sender of the session's pulse channel exists, here as a local of
\* start_monitoring (the window procedure finds it only through
\* GLOBAL_CONTEXT).
StartSubscribe_SkipsWorker(m) ==
    LET s == nsess + 1 IN
    /\ spc = "idle"
    /\ ~is_running[m]
    /\ s \in Sessions
    /\ is_running' = [is_running EXCEPT ![m] = TRUE]
    /\ control_sender' = [control_sender EXCEPT ![m] = s]
    /\ nsess' = s
    /\ sessMon' = [sessMon EXCEPT ![s] = m]
    /\ subStart' = [subStart EXCEPT ![s] = Len(bus[m])]
    /\ ctx' = [ctx EXCEPT ![s] = [window_handle |-> 0, worker_tx |-> TRUE]]
    /\ spc' = "context"
    /\ UNCHANGED <<config, syncVars, cycVars, ordVars, subVars, detVars, lastcall, bus,
                   GLOBAL_CONTEXT, MESSAGE_LOOP_RUNNING, MESSAGE_LOOP_HANDLE,
                   obsVars, ctlVars, wrkVars, osVars, foreignAccess>>

StartSubscribe(m) ==
    LET s == nsess + 1 IN
    /\ spc = "idle"
    /\ ~is_running[m]
    /\ s \in Sessions
    /\ is_running' = [is_running EXCEPT ![m] = TRUE]
    /\ control_sender' = [control_sender EXCEPT ![m] = s]
    /\ nsess' = s
    /\ sessMon' = [sessMon EXCEPT ![s] = m]
    /\ subStart' = [subStart EXCEPT ![s] = Len(bus[m])]
    /\ ctx' = [ctx EXCEPT ![s] = [window_handle |-> 0, worker_tx |-> TRUE]]
    /\ spc' = "worker"
    /\ UNCHANGED <<config, syncVars, cycVars, ordVars, subVars, detVars, lastcall, bus,
                   GLOBAL_CONTEXT, MESSAGE_LOOP_RUNNING, MESSAGE_LOOP_HANDLE,
                   obsVars, ctlVars, wrkVars, osVars, foreignAccess>>

\* std::thread::spawn of the worker, which owns the receiver of the pulse
\* channel and a clone of the event sender.
StartSpawnWorker ==
    /\ spc = "worker"
    /\ wpc' = [wpc EXCEPT ![nsess] = "init"]
    /\ spc' = "context"
    /\ UNCHANGED <<config, syncVars, cycVars, ordVars, subVars, detVars, monVars, nsess,
                   sessMon, subStart, globVars, obsVars, ctlVars, pulses,
                   last_content, attempt, osVars, foreignAccess>>

\* GLOBAL_CONTEXT = Some(..): the context with the pulse sender replaces
\* the one the static held.
StartSetContext ==
    /\ spc = "context"
    /\ ctx' = DropContext(ctx, GLOBAL_CONTEXT)
    /\ GLOBAL_CONTEXT' = nsess
    /\ spc' = "observer"
    /\ UNCHANGED <<config, syncVars, cycVars, ordVars, subVars, detVars, monVars, nsess,
                   sessMon, subStart, MESSAGE_LOOP_RUNNING,
                   MESSAGE_LOOP_HANDLE, obsVars, ctlVars, wrkVars, osVars,
                   foreignAccess>>

\* The observer thread and the control task are spawned and the
\* subscription is returned.
StartSpawnObserver ==
    /\ spc = "observer"
    /\ MESSAGE_LOOP_RUNNING' = TRUE
    /\ MESSAGE_LOOP_HANDLE' = nsess
    /\ obs' = [obs EXCEPT ![nsess] = "spawned"]
    /\ ctl' = [ctl EXCEPT ![nsess] = "waiting"]
    /\ lastcall' = [lastcall EXCEPT ![sessMon[nsess]] = "start_ok"]
    /\ spc' = "idle"
    /\ UNCHANGED <<config, syncVars, cycVars, ordVars, subVars, detVars, is_running,
                   control_sender, bus, nsess, sessMon, subStart,
                   GLOBAL_CONTEXT, ctx, listening, msgq, quit, joinTarget,
                   wrkVars, osVars, foreignAccess>>

\* The early return of start_monitoring.
StartRejected(m) ==
    /\ lastcall' = [lastcall EXCEPT ![m] = "start_err"]
    /\ UNCHANGED <<config, syncVars, cycVars, ordVars, subVars, detVars,
                   is_running, control_sender, bus, sessVars, globVars,
                   obsVars, ctlVars, wrkVars, osVars, foreignAccess>>

\* start_monitoring without its is_running check.
StartMonitoring_Unchecked(m) == DoStart(m)

StartMonitoring(m) ==
    IF is_running[m] THEN StartRejected(m) ELSE DoStart(m)

\* stop_monitoring_sync that sends Stop and forgets to clear is_running.
DoStop_FlagKept(m) ==
    LET s == control_sender[m] IN
    /\ ctl' = IF s # 0 /\ ctl[s] = "waiting" THEN [ctl EXCEPT ![s] = "stop"] ELSE ctl
    /\ control_sender' = [control_sender EXCEPT ![m] = 0]
    /\ lastcall' = [lastcall EXCEPT ![m] = "stop_ok"]
    /\ UNCHANGED <<config, syncVars, cycVars, ordVars, subVars, detVars,
                   is_running, bus, sessVars, globVars, obsVars,
                   joinTarget, wrkVars, osVars, foreignAccess>>

\* The body of stop_monitoring_sync once the is_running check has passed.
\* The send fails only when the control task has dropped its receiver; the
\* ? operator then returns before is_running is cleared.
DoStop(m) ==
    LET s == control_sender[m]
        sendFails == s # 0 /\ ctl[s] # "waiting"
    IN
    IF sendFails
    THEN /\ lastcall' = [lastcall EXCEPT ![m] = "stop_senderr"]
         /\ UNCHANGED <<config, syncVars, cycVars, ordVars, subVars, detVars,
                        is_running, control_sender, bus, sessVars,
                        globVars, obsVars, ctlVars, wrkVars, osVars,
                        foreignAccess>>
    ELSE /\ ctl' = IF s # 0 THEN [ctl EXCEPT ![s] = "stop"] ELSE ctl
         /\ control_sender' = [control_sender EXCEPT ![m] = 0]
         /\ is_running' = [is_running EXCEPT ![m] = FALSE]
         /\ lastcall' = [lastcall EXCEPT ![m] = "stop_ok"]
         /\ UNCHANGED <<config, syncVars, cycVars, ordVars, subVars, detVars,
                        bus, sessVars, globVars, obsVars, joinTarget,
                        wrkVars, osVars, foreignAccess>>

\* The early return of stop_monitoring_sync.
StopRejected(m) ==
    /\ lastcall' = [lastcall EXCEPT ![m] = "stop_err"]
    /\ UNCHANGED <<config, syncVars, cycVars, ordVars, subVars, detVars,
                   is_running, control_sender, bus, sessVars, globVars,
                   obsVars, ctlVars, wrkVars, osVars, foreignAccess>>

\* stop_monitoring_sync without its is_running check.
StopMonitoringSync_Unchecked(m) == DoStop(m)

\* stop_monitoring_sync, and stop_monitoring which only calls it.
StopMonitoringSync(m) ==
    IF ~is_running[m] THEN StopRejected(m) ELSE DoStop(m)

\* ------------------------------------------------------------ control task
\* stop_windows_monitoring that leaves the context, and the worker_tx in it,
\* where they are.
ControlStop_KeepsSender(s, destroyed) ==
    LET g == GLOBAL_CONTEXT
        hwnd == IF g = 0 THEN 0 ELSE ctx[g].window_handle
        gone == hwnd # 0 /\ destroyed /\ listening[hwnd]
        h == MESSAGE_LOOP_HANDLE
        joins == h # 0 /\ obs[h] \in {"spawned", "loop"}
    IN
    /\ ctl[s] = "stop"
    /\ (hwnd = 0 \/ ~listening[hwnd]) => destroyed
    /\ MESSAGE_LOOP_RUNNING' = FALSE
    /\ listening' = IF gone THEN [listening EXCEPT ![hwnd] = FALSE] ELSE listening
    /\ msgq' = IF gone THEN [msgq EXCEPT ![hwnd] = 0] ELSE msgq
    /\ quit' = IF gone THEN [quit EXCEPT ![hwnd] = TRUE] ELSE quit
    /\ MESSAGE_LOOP_HANDLE' = 0
    /\ joinTarget' = [joinTarget EXCEPT ![s] = IF joins THEN h ELSE 0]
    /\ ctl' = [ctl EXCEPT ![s] = IF joins THEN "joining" ELSE "done"]
    /\ UNCHANGED <<config, syncVars, cycVars, ordVars, subVars, detVars,
                   monVars, sessVars, obs, wrkVars, osVars,
                   foreignAccess, libVars, ctx, GLOBAL_CONTEXT>>

\* The control task receives Stop and runs stop_windows_monitoring up to
\* the join.  destroyed is what DestroyWindow returns (the code ignores
\* it).  A window destroyed gets WM_DESTROY, whose handler removes the
\* listener and posts WM_QUIT to the thread that owns the window;
\* PostQuitMessage called here posts to the control task's own thread.
ControlStop(s, destroyed) ==
    LET g == GLOBAL_CONTEXT
        hwnd == IF g = 0 THEN 0 ELSE ctx[g].window_handle
        gone == hwnd # 0 /\ destroyed /\ listening[hwnd]
        h == MESSAGE_LOOP_HANDLE
        joins == h # 0 /\ obs[h] \in {"spawned", "loop"}
    IN
    /\ ctl[s] = "stop"
    /\ (hwnd = 0 \/ ~listening[hwnd]) => destroyed
    /\ MESSAGE_LOOP_RUNNING' = FALSE
    /\ listening' = IF gone THEN [listening EXCEPT ![hwnd] = FALSE] ELSE listening
    /\ msgq' = IF gone THEN [msgq EXCEPT ![hwnd] = 0] ELSE msgq
    /\ quit' = IF gone THEN [quit EXCEPT ![hwnd] = TRUE] ELSE quit
    /\ ctx' = DropContext(ctx, g)
    /\ GLOBAL_CONTEXT' = 0
    /\ MESSAGE_LOOP_HANDLE' = 0
    /\ joinTarget' = [joinTarget EXCEPT ![s] = IF joins THEN h ELSE 0]
    /\ ctl' = [ctl EXCEPT ![s] = IF joins THEN "joining" ELSE "done"]
    /\ UNCHANGED <<config, syncVars, cycVars, ordVars, subVars, detVars,
                   monVars, sessVars, obs, wrkVars, osVars,
                   foreignAccess, libVars>>

\* handle.join() returns once the observer thread it names has ended.
ControlJoin(s) ==
    /\ ctl[s] = "joining"
    /\ ~ObserverAlive(joinTarget[s])
    /\ ctl' = [ctl EXCEPT ![s] = "done"]
    /\ joinTarget' = [joinTarget EXCEPT ![s] = 0]
    /\ UNCHANGED <<config, syncVars, cycVars, ordVars, subVars, detVars,
                   monVars, sessVars, globVars, obsVars, wrkVars,
                   osVars, foreignAccess, libVars>>

\* ---------------------------------------------------------- observer thread
RegOutcomes == {"class_failed", "window_failed", "listener_failed", "ok"}

\* run_windows_message_loop up to the message loop: register the class,
\* create the window, record it in the current global context, register
\* the clipboard listener.  r is what the OS answers.  Every return of
\* run_windows_message_loop is followed by MESSAGE_LOOP_RUNNING.store(false).
ObserverRegister(s, r) ==
    LET g == GLOBAL_CONTEXT
        created == r \in {"listener_failed", "ok"}
    IN
    /\ obs[s] = "spawned"
    /\ ctx' = IF created /\ g # 0
              THEN [ctx EXCEPT ![g].window_handle = s] ELSE ctx
    /\ listening' = [listening EXCEPT ![s] = (r = "ok")]
    /\ obs' = [obs EXCEPT ![s] = IF r = "ok" THEN "loop" ELSE "failed"]
    /\ MESSAGE_LOOP_RUNNING' = IF r = "ok" THEN MESSAGE_LOOP_RUNNING ELSE FALSE
    /\ UNCHANGED <<config, syncVars, cycVars, ordVars, subVars, detVars,
                   monVars, sessVars, GLOBAL_CONTEXT,
                   MESSAGE_LOOP_HANDLE, msgq, quit, ctlVars, wrkVars, osVars,
                   foreignAccess, libVars>>

\* window_proc on WM_CLIPBOARDUPDATE: one send on the worker_tx of the
\* current global context, if there is one; a send to a worker that has
\* dropped its receiver fails and is ignored.
WindowProcPulse ==
    LET g == GLOBAL_CONTEXT
        sent == g # 0 /\ ctx[g].worker_tx /\ WorkerAlive(g)
    IN
    /\ sent => pulses[g] < MaxPulses
    /\ pulses' = IF sent THEN [pulses EXCEPT ![g] = @ + 1] ELSE pulses

\* One turn of the message loop.  GetMessageW returns a queued
\* WM_CLIPBOARDUPDATE, or WM_QUIT once no other message is queued.  The
\* loop ends on WM_QUIT, or on any message once MESSAGE_LOOP_RUNNING is
\* false; the thread then ends and its window and queue go with it.
ObserverGetMessage(s) ==
    /\ obs[s] = "loop"
    /\ msgq[s] > 0 \/ quit[s]
    /\ IF msgq[s] > 0 /\ MESSAGE_LOOP_RUNNING
       THEN /\ WindowProcPulse
            /\ msgq' = [msgq EXCEPT ![s] = @ - 1]
            /\ UNCHANGED <<obs, listening, quit, MESSAGE_LOOP_RUNNING>>
       ELSE /\ obs' = [obs EXCEPT ![s] = "exited"]
            /\ listening' = [listening EXCEPT ![s] = FALSE]
            /\ msgq' = [msgq EXCEPT ![s] = 0]
            /\ quit' = [quit EXCEPT ![s] = FALSE]
            /\ MESSAGE_LOOP_RUNNING' = FALSE
            /\ UNCHANGED pulses
    /\ UNCHANGED <<config, syncVars, cycVars, ordVars, subVars, detVars,
                   monVars, sessVars, GLOBAL_CONTEXT,
                   MESSAGE_LOOP_HANDLE, ctx, ctlVars, wpc, last_content,
                   attempt, osVars, foreignAccess, libVars>>

\* ------------------------------------- the threads, statement by statement
Observer(s) == <<"observer", s>>

Control(s) == <<"control", s>>

\* The static held the only Arc of the context: once the static holds
\* something else the context is freed, and a thread that still uses the
\* reference it took from the static reads freed memory.
Freed(g) == GLOBAL_CONTEXT # g

\* RegisterClassExW and CreateWindowExW; a failure returns Err, and
\* MESSAGE_LOOP_RUNNING.store(false) follows every return.
ObserverCreateWindow(s, created) ==
    /\ obs[s] = "spawned"
    /\ obs' = [obs EXCEPT ![s] = IF created THEN "record" ELSE "failed"]
    /\ MESSAGE_LOOP_RUNNING' = (MESSAGE_LOOP_RUNNING /\ created)
    /\ UNCHANGED <<config, lock, context_arc, monVars, sessVars,
                   GLOBAL_CONTEXT, MESSAGE_LOOP_HANDLE, ctx, listening, msgq,
                   quit, ctlVars, wrkVars, osVars, foreignAccess, libVars,
                   cycVars, ordVars, subVars, detVars>>

\* if let Some(context_arc) = &GLOBAL_CONTEXT, in run_windows_message_loop
\* and in window_proc: the static is read with no lock held.
ObserverReadContext(s) ==
    LET found == GLOBAL_CONTEXT # 0 IN
    /\ obs[s] \in {"record", "proc"}
    /\ context_arc' = [context_arc EXCEPT !["observer"][s] = GLOBAL_CONTEXT]
    /\ obs' = [obs EXCEPT ![s] =
                 IF obs[s] = "record"
                 THEN (IF found THEN "record_lock" ELSE "listen")
                 ELSE (IF found THEN "proc_lock" ELSE "loop")]
    /\ UNCHANGED <<config, lock, monVars, sessVars, globVars, listening, msgq,
                   quit, ctlVars, wrkVars, osVars, foreignAccess, libVars,
                   cycVars, ordVars, subVars, detVars>>

\* context_arc.lock() in the observer thread
ObserverLock(s) ==
    LET g == context_arc["observer"][s] IN
    /\ obs[s] \in {"record_lock", "proc_lock"}
    /\ lock[g] = <<>>
    /\ lock' = [lock EXCEPT ![g] = Observer(s)]
    /\ obs' = [obs EXCEPT ![s] =
                 IF obs[s] = "record_lock" THEN "record_set" ELSE "proc_send"]
    /\ UNCHANGED <<config, context_arc, monVars, sessVars, globVars,
                   listening, msgq, quit, ctlVars, wrkVars, osVars,
                   foreignAccess, libVars, cycVars, ordVars, subVars, detVars>>

\* context.window_handle = hwnd, and the guard is dropped.  A write to a
\* freed context may or may not be seen by a later reader of that memory.
ObserverRecord(s) ==
    LET g == context_arc["observer"][s] IN
    /\ obs[s] = "record_set"
    /\ \E kept \in (IF Freed(g) THEN BOOLEAN ELSE {TRUE}) :
          ctx' = IF kept THEN [ctx EXCEPT ![g].window_handle = s] ELSE ctx
    /\ lock' = [lock EXCEPT ![g] = <<>>]
    /\ obs' = [obs EXCEPT ![s] = "listen"]
    /\ UNCHANGED <<config, context_arc, monVars, sessVars, GLOBAL_CONTEXT,
                   MESSAGE_LOOP_RUNNING, MESSAGE_LOOP_HANDLE, listening, msgq,
                   quit, ctlVars, wrkVars, osVars, foreignAccess, libVars,
                   cycVars, ordVars, subVars, detVars>>

\* AddClipboardFormatListener; on failure the window is destroyed and the
\* thread returns Err.
ObserverListen(s, ok) ==
    /\ obs[s] = "listen"
    /\ listening' = [listening EXCEPT ![s] = ok]
    /\ obs' = [obs EXCEPT ![s] = IF ok THEN "loop" ELSE "failed"]
    /\ MESSAGE_LOOP_RUNNING' = (MESSAGE_LOOP_RUNNING /\ ok)
    /\ UNCHANGED <<config, lock, context_arc, monVars, sessVars,
                   GLOBAL_CONTEXT, MESSAGE_LOOP_HANDLE, ctx, msgq, quit,
                   ctlVars, wrkVars, osVars, foreignAccess, libVars, cycVars,
                   ordVars, subVars, detVars>>

\* The message loop is left: the thread ends, its window and queue go with
\* it, and MESSAGE_LOOP_RUNNING.store(false) follows.
LeaveLoop(s) ==
    /\ obs' = [obs EXCEPT ![s] = "exited"]
    /\ listening' = [listening EXCEPT ![s] = FALSE]
    /\ msgq' = [msgq EXCEPT ![s] = 0]
    /\ quit' = [quit EXCEPT ![s] = FALSE]
    /\ MESSAGE_LOOP_RUNNING' = FALSE

\* GetMessageW returns a queued WM_CLIPBOARDUPDATE, or WM_QUIT (false) once
\* no other message is queued.
ObserverGet(s) ==
    /\ obs[s] = "loop"
    /\ msgq[s] > 0 \/ quit[s]
    /\ IF msgq[s] > 0
       THEN /\ msgq' = [msgq EXCEPT ![s] = @ - 1]
            /\ obs' = [obs EXCEPT ![s] = "check"]
            /\ UNCHANGED <<listening, quit, MESSAGE_LOOP_RUNNING>>
       ELSE LeaveLoop(s)
    /\ UNCHANGED <<config, lock, context_arc, monVars, sessVars,
                   GLOBAL_CONTEXT, MESSAGE_LOOP_HANDLE, ctx, ctlVars, wrkVars,
                   osVars, foreignAccess, libVars, cycVars, ordVars, subVars,
                   detVars>>

\* if !MESSAGE_LOOP_RUNNING.load(SeqCst) { break }, else the message is
\* dispatched to window_proc.
ObserverCheck(s) ==
    /\ obs[s] = "check"
    /\ IF MESSAGE_LOOP_RUNNING
       THEN /\ obs' = [obs EXCEPT ![s] = "proc"]
            /\ UNCHANGED <<listening, msgq, quit, MESSAGE_LOOP_RUNNING>>
       ELSE LeaveLoop(s)
    /\ UNCHANGED <<config, lock, context_arc, monVars, sessVars,
                   GLOBAL_CONTEXT, MESSAGE_LOOP_HANDLE, ctx, ctlVars, wrkVars,
                   osVars, foreignAccess, libVars, cycVars, ordVars, subVars,
                   detVars>>

\* window_proc with the lock held: tx.send(()) on the worker_tx of the
\* context, if it has one, and the guard is dropped.  A freed context shows
\* a sender or none.
ObserverSend(s) ==
    LET g == context_arc["observer"][s] IN
    /\ obs[s] = "proc_send"
    /\ \E tx \in (IF Freed(g) THEN BOOLEAN ELSE {ctx[g].worker_tx}) :
          LET sent == tx /\ WorkerAlive(g) IN
          /\ sent => pulses[g] < MaxPulses
          /\ pulses' = IF sent THEN [pulses EXCEPT ![g] = @ + 1] ELSE pulses
    /\ lock' = [lock EXCEPT ![g] = <<>>]
    /\ obs' = [obs EXCEPT ![s] = "loop"]
    /\ UNCHANGED <<config, context_arc, monVars, sessVars, globVars,
                   listening, msgq, quit, ctlVars, wpc, last_content, attempt,
                   osVars, foreignAccess, libVars, cycVars, ordVars, subVars,
                   detVars>>

\* stop_windows_monitoring: MESSAGE_LOOP_RUNNING.store(false, SeqCst)
StopStore(s) ==
    /\ ctl[s] = "stop"
    /\ MESSAGE_LOOP_RUNNING' = FALSE
    /\ ctl' = [ctl EXCEPT ![s] = "stop_read"]
    /\ UNCHANGED <<config, lock, context_arc, monVars, sessVars,
                   GLOBAL_CONTEXT, MESSAGE_LOOP_HANDLE, ctx, obsVars,
                   joinTarget, wrkVars, osVars, foreignAccess, libVars,
                   cycVars, ordVars, subVars, detVars>>

\* if let Some(context_arc) = &GLOBAL_CONTEXT, with no lock held
StopReadContext(s) ==
    /\ ctl[s] = "stop_read"
    /\ context_arc' = [context_arc EXCEPT !["control"][s] = GLOBAL_CONTEXT]
    /\ ctl' = [ctl EXCEPT ![s] =
                 IF GLOBAL_CONTEXT # 0 THEN "stop_lock" ELSE "stop_handle"]
    /\ UNCHANGED <<config, lock, monVars, sessVars, globVars, obsVars,
                   joinTarget, wrkVars, osVars, foreignAccess, libVars,
                   cycVars, ordVars, subVars, detVars>>

\* context_arc.lock() in the control task
StopLock(s) ==
    LET g == context_arc["control"][s] IN
    /\ ctl[s] = "stop_lock"
    /\ lock[g] = <<>>
    /\ lock' = [lock EXCEPT ![g] = Control(s)]
    /\ ctl' = [ctl EXCEPT ![s] = "stop_window"]
    /\ UNCHANGED <<config, context_arc, monVars, sessVars, globVars, obsVars,
                   joinTarget, wrkVars, osVars, foreignAccess, libVars,
                   cycVars, ordVars, subVars, detVars>>

\* With the guard held: DestroyWindow(hwnd), or PostQuitMessage(0) when no
\* window is recorded; then worker_tx.take() and the guard is dropped.
\* destroyed is what DestroyWindow answers; PostQuitMessage posts to the
\* control task's own thread.
StopWindow(s, destroyed) ==
    LET g == context_arc["control"][s]
        hwnd == ctx[g].window_handle
        gone == hwnd # 0 /\ destroyed /\ listening[hwnd]
    IN
    /\ ctl[s] = "stop_window"
    /\ (hwnd = 0 \/ ~listening[hwnd]) => destroyed
    /\ listening' = IF gone THEN [listening EXCEPT ![hwnd] = FALSE] ELSE listening
    /\ msgq' = IF gone THEN [msgq EXCEPT ![hwnd] = 0] ELSE msgq
    /\ quit' = IF gone THEN [quit EXCEPT ![hwnd] = TRUE] ELSE quit
    /\ ctx' = [ctx EXCEPT ![g].worker_tx = FALSE]
    /\ lock' = [lock EXCEPT ![g] = <<>>]
    /\ ctl' = [ctl EXCEPT ![s] = "stop_clear"]
    /\ UNCHANGED <<config, context_arc, monVars, sessVars, GLOBAL_CONTEXT,
                   MESSAGE_LOOP_RUNNING, MESSAGE_LOOP_HANDLE, obs, joinTarget,
                   wrkVars, osVars, foreignAccess, libVars, cycVars, ordVars,
                   subVars, detVars>>

\* GLOBAL_CONTEXT = None, with no lock held
StopClearContext(s) ==
    /\ ctl[s] = "stop_clear"
    /\ ctx' = DropContext(ctx, GLOBAL_CONTEXT)
    /\ GLOBAL_CONTEXT' = 0
    /\ ctl' = [ctl EXCEPT ![s] = "stop_handle"]
    /\ UNCHANGED <<config, lock, context_arc, monVars, sessVars,
                   MESSAGE_LOOP_RUNNING, MESSAGE_LOOP_HANDLE, obsVars,
                   joinTarget, wrkVars, osVars, foreignAccess, libVars,
                   cycVars, ordVars, subVars, detVars>>

\* MESSAGE_LOOP_HANDLE.take(), with no lock held; the handle found is
\* joined.
StopTakeHandle(s) ==
    LET h == MESSAGE_LOOP_HANDLE IN
    /\ ctl[s] = "stop_handle"
    /\ MESSAGE_LOOP_HANDLE' = 0
    /\ joinTarget' = [joinTarget EXCEPT ![s] = h]
    /\ ctl' = [ctl EXCEPT ![s] = IF h # 0 THEN "joining" ELSE "done"]
    /\ UNCHANGED <<config, lock, context_arc, monVars, sessVars,
                   GLOBAL_CONTEXT, MESSAGE_LOOP_RUNNING, ctx, obsVars,
                   wrkVars, osVars, foreignAccess, libVars, cycVars, ordVars,
                   subVars, detVars>>

\* ------------------------------------------------------------ worker thread
\* The filters with the duplicate test left out.
Accepted_NoDedup(cfg, last, c) ==
    /\ ~(ByteLen(c) < cfg.min_content_length)
    /\ ~(ByteLen(c) > cfg.max_content_length)
    /\ Trim(c) # <<>>
    /\ ~(cfg.ignore_short_content /\ ByteLen(Trim(c)) <= 1)

\* The filters with the two length tests left out.
Accepted_NoLength(cfg, last, c) ==
    /\ Trim(c) # <<>>
    /\ ~(cfg.ignore_duplicates /\ last # NoContent /\ last = c)
    /\ ~(cfg.ignore_short_content /\ ByteLen(Trim(c)) <= 1)

\* The filters with the test of the trimmed text left out.
Accepted_NoBlankTest(cfg, last, c) ==
    /\ ~(ByteLen(c) < cfg.min_content_length)
    /\ ~(ByteLen(c) > cfg.max_content_length)
    /\ ~(cfg.ignore_duplicates /\ last # NoContent /\ last = c)
    /\ ~(cfg.ignore_short_content /\ ByteLen(Trim(c)) <= 1)

\* The filters with the duplicate test comparing against nothing.
Accepted_ForgetsLast(cfg, last, c) ==
    /\ ~(ByteLen(c) < cfg.min_content_length)
    /\ ~(ByteLen(c) > cfg.max_content_length)
    /\ Trim(c) # <<>>
    /\ ~(cfg.ignore_duplicates /\ last # NoContent /\ NoContent = c)
    /\ ~(cfg.ignore_short_content /\ ByteLen(Trim(c)) <= 1)

\* The filters of run_worker, in the order the code applies them.
Accepted(cfg, last, c) ==
    /\ ~(ByteLen(c) < cfg.min_content_length)
    /\ ~(ByteLen(c) > cfg.max_content_length)
    /\ Trim(c) # <<>>
    /\ ~(cfg.ignore_duplicates /\ last # NoContent /\ last = c)
    /\ ~(cfg.ignore_short_content /\ ByteLen(Trim(c)) <= 1)

\* The ClipboardChange the worker sends (the generation read and the
\* sending worker are recorded for the properties; the code carries neither).
Event(s, c) == [content |-> c, gen |-> clipboard.gen, by |-> s]

\* The thread returns: its locals and the receiver are dropped.
WorkerReturn(s, how) ==
    /\ wpc' = [wpc EXCEPT ![s] = how]
    /\ pulses' = [pulses EXCEPT ![s] = 0]
    /\ last_content' = [last_content EXCEPT ![s] = NoContent]

\* Clipboard::new() at the top of run_worker; on Err the thread returns.
WorkerInit(s, ok) ==
    /\ wpc[s] = "init"
    /\ IF ok
       THEN /\ wpc' = [wpc EXCEPT ![s] = "wait"]
            /\ UNCHANGED <<pulses, last_content>>
       ELSE WorkerReturn(s, "failed")
    /\ UNCHANGED <<config, syncVars, cycVars, ordVars, subVars, detVars,
                   monVars, sessVars, globVars, obsVars, ctlVars,
                   attempt, osVars, foreignAccess, libVars>>

\* rx.recv() and the debounce test.  recv returns a queued pulse, or Err
\* once the sender is dropped and the queue is empty.  early is
\* since < debounce, which the clock decides: the worker then sleeps.
WorkerRecv(s, early) ==
    /\ wpc[s] = "wait"
    /\ pulses[s] > 0 \/ ~ctx[s].worker_tx
    /\ IF pulses[s] > 0
       THEN /\ pulses' = [pulses EXCEPT ![s] = @ - 1]
            /\ wpc' = [wpc EXCEPT ![s] = IF early THEN "sleep" ELSE "read"]
            /\ UNCHANGED last_content
       ELSE /\ ~early
            /\ WorkerReturn(s, "stopped")
    /\ UNCHANGED <<config, syncVars, cycVars, ordVars, subVars, detVars,
                   monVars, sessVars, globVars, obsVars, ctlVars,
                   attempt, osVars, foreignAccess, libVars>>

\* The sleep is over: while rx.try_recv().is_ok() {}
WorkerDrain(s) ==
    /\ wpc[s] = "sleep"
    /\ pulses' = [pulses EXCEPT ![s] = 0]
    /\ wpc' = [wpc EXCEPT ![s] = "read"]
    /\ UNCHANGED <<config, syncVars, cycVars, ordVars, subVars, detVars,
                   monVars, sessVars, globVars, obsVars, ctlVars,
                   last_content, attempt, osVars, foreignAccess, libVars>>

\* The rest of the cycle after a read that returned text c: the filters,
\* then the event is created, last_content replaced and the event sent.
FilterAndEmit(s, c) ==
    LET m == sessMon[s] IN
    IF Accepted(config, last_content[s], c)
    THEN /\ Len(bus[m]) < MaxEvents
         /\ bus' = [bus EXCEPT ![m] = Append(@, Event(s, c))]
         /\ last_content' = [last_content EXCEPT ![s] = c]
    ELSE UNCHANGED <<bus, last_content>>

\* One attempt of read_clipboard_with_retry (ok: get_text returned Ok) and,
\* on success, the rest of the cycle.  A failed attempt sleeps and retries;
\* after retry_max failed attempts the cycle is skipped.
WorkerRead(s, ok) ==
    /\ wpc[s] = "read"
    /\ IF ok /\ attempt[s] < config.retry_max
       THEN /\ FilterAndEmit(s, clipboard.content)
            /\ wpc' = [wpc EXCEPT ![s] = "wait"]
            /\ attempt' = [attempt EXCEPT ![s] = 0]
            /\ UNCHANGED owed
       ELSE IF attempt[s] + 1 < config.retry_max
       THEN /\ attempt' = [attempt EXCEPT ![s] = @ + 1]
            /\ UNCHANGED <<wpc, bus, last_content, owed>>
       ELSE /\ wpc' = [wpc EXCEPT ![s] = "wait"]
            /\ attempt' = [attempt EXCEPT ![s] = 0]
            /\ owed' = owed \ {s}
            /\ UNCHANGED <<bus, last_content>>
    /\ UNCHANGED <<config, syncVars, cycVars, ordVars, subVars, detVars,
                   is_running, control_sender, lastcall, sessVars,
                   globVars, obsVars, ctlVars, pulses, clipboard, extra,
                   foreignAccess, libVars>>

\* ---------------------------------------------------------------------- OS
\* The system posts WM_CLIPBOARDUPDATE to every registered listener window.
Notify ==
    /\ \A s \in Sessions : listening[s] => msgq[s] < MaxMsgs
    /\ msgq' = [s \in Sessions |->
                  IF listening[s] THEN msgq[s] + 1 ELSE msgq[s]]

\* Text c is put on the clipboard.
Put(c) ==
    /\ clipboard' = [gen |-> clipboard.gen + 1, content |-> c]
    /\ owed' = {s \in Sessions : Active(s) /\ last_content[s] # c}
    /\ Notify
    /\ UNCHANGED <<config, syncVars, cycVars, ordVars, subVars, detVars,
                   monVars, sessVars, globVars, obs, listening, quit,
                   ctlVars, wrkVars, extra, libVars>>

SetClipboard(c) ==
    /\ clipboard.gen < MaxChanges
    /\ Put(c)

\* Some other application puts text c on the clipboard.
ClipboardChange(c) ==
    /\ SetClipboard(c)
    /\ UNCHANGED foreignAccess

\* The system raises one more notification for the change already made.
ExtraNotify ==
    /\ extra < MaxExtra
    /\ clipboard.gen > 0
    /\ \E s \in Sessions : listening[s]
    /\ extra' = extra + 1
    /\ Notify
    /\ UNCHANGED <<config, syncVars, cycVars, ordVars, subVars, detVars,
                   monVars, sessVars, globVars, obs, listening, quit,
                   ctlVars, wrkVars, clipboard, owed, foreignAccess, libVars>>

\* ------------------------------------------------------------------ lib.rs
\* start_clipboard_monitoring up to its first await: the IS_RUNNING check.
\* (When IS_RUNNING is set the command returns and changes nothing.)
LibStartCheck ==
    /\ ~IS_RUNNING
    /\ cmd.awaiting < MaxCmds
    /\ cmd' = [cmd EXCEPT !.awaiting = @ + 1]
    /\ UNCHANGED <<config, syncVars, cycVars, ordVars, subVars, detVars,
                   monVars, sessVars, globVars, obsVars, ctlVars,
                   wrkVars, osVars, foreignAccess, IS_RUNNING,
                   CLIPBOARD_MONITOR, proc>>

\* test_ai_connection has returned: ClipboardMonitor::new and
\* start_monitoring on the new monitor.
LibStartMonitor ==
    LET m == nsess + 1 IN
    /\ cmd.awaiting > 0
    /\ m \in Monitors
    /\ StartMonitoring(m)
    /\ cmd' = [awaiting |-> cmd.awaiting - 1, started |-> cmd.started \cup {m}]
    /\ UNCHANGED <<IS_RUNNING, CLIPBOARD_MONITOR, proc>>

\* The monitor held by CLIPBOARD_MONITOR is dropped.  Its control sender,
\* if it still has one, goes with it: the control task's recv returns None
\* and the task ends without tearing anything down.
DropMonitor(o) ==
    LET s == IF o = 0 THEN 0 ELSE control_sender[o] IN
    /\ is_running' = IF o = 0 THEN is_running ELSE [is_running EXCEPT ![o] = FALSE]
    /\ control_sender' =
          IF o = 0 THEN control_sender ELSE [control_sender EXCEPT ![o] = 0]
    /\ lastcall' = IF o = 0 THEN lastcall ELSE [lastcall EXCEPT ![o] = "dropped"]
    /\ ctl' = IF s # 0 /\ ctl[s] = "waiting" THEN [ctl EXCEPT ![s] = "done"] ELSE ctl

\* The rest of start_clipboard_monitoring: store the monitor (dropping the
\* one stored before), set IS_RUNNING, spawn the event-processing task.
LibStartStore(m) ==
    /\ m \in cmd.started
    /\ DropMonitor(CLIPBOARD_MONITOR)
    /\ CLIPBOARD_MONITOR' = m
    /\ IS_RUNNING' = TRUE
    /\ proc' = [proc EXCEPT ![control_sender[m]] = [pc |-> "check", pos |-> subStart[control_sender[m]] + 1]]
    /\ cmd' = [cmd EXCEPT !.started = @ \ {m}]
    /\ UNCHANGED <<config, syncVars, cycVars, ordVars, subVars, detVars,
                   bus, sessVars, globVars, obsVars, joinTarget,
                   wrkVars, osVars, foreignAccess>>

\* stop_clipboard_monitoring: clear IS_RUNNING, stop the stored monitor and,
\* unless that returned Err, drop it.
LibStop ==
    LET m == CLIPBOARD_MONITOR IN
    /\ IS_RUNNING' = FALSE
    /\ IF m = 0
       THEN UNCHANGED <<config, syncVars, cycVars, ordVars, subVars, detVars,
                        monVars, sessVars, globVars, obsVars, ctlVars,
                        wrkVars, osVars, foreignAccess, CLIPBOARD_MONITOR>>
       ELSE IF is_running[m]
       THEN /\ DoStop(m)
            /\ CLIPBOARD_MONITOR' =
                  IF lastcall'[m] = "stop_ok" THEN 0 ELSE CLIPBOARD_MONITOR
       ELSE /\ StopRejected(m)
            /\ UNCHANGED CLIPBOARD_MONITOR
    /\ UNCHANGED <<cmd, proc>>

\* The event-processing task reads IS_RUNNING at the top of its loop.
ProcCheck(s) ==
    /\ proc[s].pc = "check"
    /\ proc' = [proc EXCEPT ![s].pc = IF IS_RUNNING THEN "recv" ELSE "done"]
    /\ UNCHANGED <<config, syncVars, cycVars, ordVars, subVars, detVars,
                   monVars, sessVars, globVars, obsVars, ctlVars,
                   wrkVars, osVars, foreignAccess, IS_RUNNING,
                   CLIPBOARD_MONITOR, cmd>>

\* event_receiver.recv() returns the next event, which is handled.
ProcRecv(s) ==
    /\ proc[s].pc = "recv"
    /\ proc[s].pos <= Len(bus[sessMon[s]])
    /\ proc' = [proc EXCEPT ![s] = [pc |-> "check", pos |-> @.pos + 1]]
    /\ UNCHANGED <<config, syncVars, cycVars, ordVars, subVars, detVars,
                   monVars, sessVars, globVars, obsVars, ctlVars,
                   wrkVars, osVars, foreignAccess, IS_RUNNING,
                   CLIPBOARD_MONITOR, cmd>>

\* copy_item_to_clipboard: Clipboard::new and set_text on the command's
\* own thread.
CopyItemToClipboard(c) ==
    /\ SetClipboard(c)
    /\ foreignAccess' = (foreignAccess \/ \E s \in Sessions : Active(s))

\* ------------------------------------------- one worker, with the clock
\* The worker of the first session, followed through run_worker and
\* read_clipboard_with_retry with their times.
W == CHOOSE s \in Sessions : \A u \in Sessions : s <= u

\* Texts copied to the clipboard (it holds the empty text before): blank,
\* shorter and longer than the bounds of WorkerConfigs, and one character
\* of two bytes, as long as max_content_length.
Texts ==
    { <<" ">>, <<"a">>, <<"e'">>, <<"a", "b", "c">> }

WorkerConfigs ==
    [ min_content_length   : {0, 2},
      max_content_length   : {2},
      ignore_duplicates    : BOOLEAN,
      ignore_short_content : {FALSE},
      debounce_ms          : {60},
      retry_max            : {2},
      retry_initial_delay_ms : {150, 250} ]

\* Everything a step of the followed worker leaves alone.
cycFrame == <<config, syncVars, is_running, control_sender, lastcall, sessVars,
              globVars, obsVars, ctlVars, osVars, foreignAccess, libVars,
              ordVars, subVars, detVars>>

\* Instant::now().checked_sub(d).unwrap_or_else(Instant::now)
CheckedSub(d) == IF now >= d THEN now - d ELSE now

\* let max_delay = Duration::from_millis(200)
MaxDelay == 200

\* Duration::from_millis(initial_delay_ms.max(1))
InitialDelay(cfg) ==
    IF cfg.retry_initial_delay_ms > 1 THEN cfg.retry_initial_delay_ms ELSE 1

\* min(delay.saturating_mul(2), max_delay)
NextDelay(d) == IF 2 * d < MaxDelay THEN 2 * d ELSE MaxDelay

\* for attempt in 0..retry_max, with a attempts already made.
MayAttempt_OneMore(a, cfg) == a <= cfg.retry_max

MayAttempt(a, cfg) == a < cfg.retry_max

\* start_time.elapsed().as_millis(), with the start taken too late.
Detection_FromNow == now - now

\* start_time.elapsed().as_millis()
Detection == now - start_time

\* The ClipboardChange sent for text c, with its event's content_length
\* and timestamp (ClipboardEvent::new).  gen, by and backoff are recorded
\* for the properties: the generation read, the sending worker, and the
\* backoff delays slept in the cycle.
Change(s, c) ==
    [ content |-> c,
      content_length |-> ByteLen(c),
      timestamp |-> now,
      source_detection_time_ms |-> Detection,
      gen |-> clipboard.gen,
      by |-> s,
      backoff |-> slept ]

\* The times that pass between one pulse and the next: less than
\* debounce_ms, debounce_ms.
Gaps(cfg) == {1, cfg.debounce_ms}

\* window_proc sends one pulse to the followed worker, gap after the step
\* before.  The pulse opens a new burst unless it comes less than
\* debounce_ms after the pulse before.
Pulse(gap) ==
    LET b == IF nsent > 0 /\ now' - lastPulse.at < config.debounce_ms
             THEN lastPulse.burst ELSE lastPulse.burst + 1
    IN
    /\ now' = now + gap
    /\ ctx[W].worker_tx /\ WorkerAlive(W)
    /\ nsent < MaxSent
    /\ pulses[W] < MaxPulses
    /\ nsent' = nsent + 1
    /\ pulses' = [pulses EXCEPT ![W] = @ + 1]
    /\ queued' = Append(queued, b)
    /\ lastPulse' = [at |-> now', burst |-> b]
    /\ UNCHANGED <<cycFrame, bus, wpc, last_content, attempt, last_emit,
                   start_time, delay, wake, slept, received, last_read, cur,
                   cycles>>

\* Clipboard::new() and the initial last_emit, without waiting for a pulse.
TimedInit_ReadFirst(ok) ==
    /\ wpc[W] = "init"
    /\ wpc' = [wpc EXCEPT ![W] = "read"]
    /\ last_emit' = CheckedSub(config.debounce_ms)
    /\ start_time' = now
    /\ delay' = InitialDelay(config)
    /\ UNCHANGED <<cycFrame, bus, pulses, last_content, attempt, now, wake,
                   slept, received, last_read, nsent, lastPulse, queued, cur,
                   cycles>>

\* Clipboard::new() and the initial last_emit and last_content of run_worker.
TimedInit(ok) ==
    /\ wpc[W] = "init"
    /\ IF ok
       THEN /\ wpc' = [wpc EXCEPT ![W] = "wait"]
            /\ last_emit' = CheckedSub(config.debounce_ms)
            /\ UNCHANGED <<pulses, last_content>>
       ELSE /\ WorkerReturn(W, "failed")
            /\ UNCHANGED last_emit
    /\ UNCHANGED <<cycFrame, bus, attempt, now, start_time, delay, wake, slept,
                   received, last_read, nsent, lastPulse, queued, cur, cycles>>

\* The cycle reaches read_clipboard_with_retry: start_time is taken, the
\* delay starts at its initial value, and the burst of the pulse that
\* started the cycle has one more read cycle.
BeginRead(b) ==
    /\ start_time' = now'
    /\ delay' = InitialDelay(config)
    /\ slept' = 0
    /\ attempt' = [attempt EXCEPT ![W] = 0]
    /\ cycles' = [cycles EXCEPT ![b] = @ + 1]

\* rx.recv() returns a pulse and the cycle goes on to the read at once,
\* with no debounce test.
TimedRecv_NoDebounce ==
    /\ wpc[W] = "wait"
    /\ pulses[W] > 0
    /\ pulses' = [pulses EXCEPT ![W] = @ - 1]
    /\ queued' = Tail(queued)
    /\ cur' = Head(queued)
    /\ received' = received + 1
    /\ now' = now
    /\ wpc' = [wpc EXCEPT ![W] = "read"]
    /\ BeginRead(Head(queued))
    /\ UNCHANGED wake
    /\ UNCHANGED <<cycFrame, bus, last_content, last_emit, last_read, nsent,
                   lastPulse>>

\* rx.recv() returns a pulse; the debounce test either starts the sleep or
\* goes on to the read.
TimedRecv ==
    LET since == now - last_emit IN
    /\ wpc[W] = "wait"
    /\ pulses[W] > 0
    /\ pulses' = [pulses EXCEPT ![W] = @ - 1]
    /\ queued' = Tail(queued)
    /\ cur' = Head(queued)
    /\ received' = received + 1
    /\ now' = now
    /\ IF since < config.debounce_ms
       THEN /\ wpc' = [wpc EXCEPT ![W] = "sleep"]
            /\ wake' = now + (config.debounce_ms - since)
            /\ UNCHANGED <<start_time, delay, slept, attempt, cycles>>
       ELSE /\ wpc' = [wpc EXCEPT ![W] = "read"]
            /\ BeginRead(Head(queued))
            /\ UNCHANGED wake
    /\ UNCHANGED <<cycFrame, bus, last_content, last_emit, last_read, nsent,
                   lastPulse>>

\* The debounce sleep is over (it lasts at least what was asked for), the
\* queue is drained, and the cycle goes on to the read.
TimedDrain ==
    /\ wpc[W] = "sleep"
    /\ now' = IF now < wake THEN wake ELSE now
    /\ pulses' = [pulses EXCEPT ![W] = 0]
    /\ queued' = <<>>
    /\ wpc' = [wpc EXCEPT ![W] = "read"]
    /\ BeginRead(cur)
    /\ UNCHANGED <<cycFrame, bus, last_content, last_emit, wake, received,
                   last_read, nsent, lastPulse, cur>>

\* The rest of the cycle, with last_content taken from every text read.
TimedEmit_RemembersRejected(c) ==
    /\ last_content' = [last_content EXCEPT ![W] = c]
    /\ IF Accepted(config, last_content[W], c)
       THEN /\ Len(bus[sessMon[W]]) < MaxEvents
            /\ bus' = [bus EXCEPT ![sessMon[W]] = Append(@, Change(W, c))]
       ELSE UNCHANGED bus

\* The rest of the cycle after read_clipboard_with_retry returned Some(c).
TimedEmit(c) ==
    IF Accepted(config, last_content[W], c)
    THEN /\ Len(bus[sessMon[W]]) < MaxEvents
         /\ bus' = [bus EXCEPT ![sessMon[W]] = Append(@, Change(W, c))]
         /\ last_content' = [last_content EXCEPT ![W] = c]
    ELSE UNCHANGED <<bus, last_content>>

\* One turn of the loop of read_clipboard_with_retry.  With the attempts
\* used up it returns None and the cycle is skipped; otherwise get_text is
\* called: Ok ends the cycle through the filters, Err starts the backoff
\* sleep.  last_emit is set when read_clipboard_with_retry returns.
TimedRead(ok) ==
    /\ wpc[W] = "read"
    /\ IF ~MayAttempt(attempt[W], config)
       THEN /\ ok
            /\ wpc' = [wpc EXCEPT ![W] = "wait"]
            /\ last_emit' = now
            /\ UNCHANGED <<bus, last_content, last_read, wake>>
       ELSE IF ok
       THEN /\ TimedEmit(clipboard.content)
            /\ wpc' = [wpc EXCEPT ![W] = "wait"]
            /\ last_emit' = now
            /\ last_read' = clipboard.content
            /\ UNCHANGED wake
       ELSE /\ wpc' = [wpc EXCEPT ![W] = "backoff"]
            /\ wake' = now + delay
            /\ UNCHANGED <<bus, last_content, last_read, last_emit>>
    /\ UNCHANGED <<cycFrame, pulses, attempt, now, start_time, delay, slept,
                   received, nsent, lastPulse, queued, cur, cycles>>

\* std::thread::sleep(delay) is over; the delay is doubled up to max_delay
\* and the loop goes to its next attempt.
TimedBackoff ==
    /\ wpc[W] = "backoff"
    /\ now' = IF now < wake THEN wake ELSE now
    /\ slept' = slept + delay
    /\ delay' = NextDelay(delay)
    /\ attempt' = [attempt EXCEPT ![W] = @ + 1]
    /\ wpc' = [wpc EXCEPT ![W] = "read"]
    /\ UNCHANGED <<cycFrame, bus, pulses, last_content, last_emit, start_time,
                   wake, received, last_read, nsent, lastPulse, queued, cur,
                   cycles>>

\* ------------------------------------- the cycle's end, in its two steps
\* The rest of the cycle after a successful read, up to the send: the
\* filters, then create_event stamps the event (ClipboardEvent::new takes
\* the time) and last_content is replaced.  seq is the event's place in the
\* order of the timestamps.
WorkerAccept(s) ==
    LET c == clipboard.content IN
    /\ wpc[s] = "read"
    /\ IF Accepted(config, last_content[s], c)
       THEN /\ accepted' = accepted + 1
            /\ pending' = [pending EXCEPT ![s] =
                  [content |-> c, gen |-> clipboard.gen, by |-> s,
                   seq |-> accepted + 1]]
            /\ last_content' = [last_content EXCEPT ![s] = c]
            /\ wpc' = [wpc EXCEPT ![s] = "emit"]
       ELSE /\ wpc' = [wpc EXCEPT ![s] = "wait"]
            /\ UNCHANGED <<accepted, pending, last_content>>
    /\ UNCHANGED <<config, syncVars, cycVars, monVars, sessVars, globVars, obsVars,
                   ctlVars, pulses, attempt, osVars, foreignAccess, libVars,
                   subVars, detVars>>

\* event_sender.send(change) on a channel that makes the sender wait while
\* a receiver has Capacity events left to read.
Publish_Waits(s, heard) ==
    /\ wpc[s] = "emit"
    /\ \A u \in SessionsOf(sessMon[s]) :
          Len(bus[sessMon[s]]) - (subStart[u] + sub[u].ahead) < Capacity
    /\ bus' = [bus EXCEPT ![sessMon[s]] =
                 IF heard THEN Append(@, pending[s]) ELSE @]
    /\ pending' = [pending EXCEPT ![s] = NoEvent]
    /\ wpc' = [wpc EXCEPT ![s] = "wait"]
    /\ UNCHANGED <<config, syncVars, cycVars, is_running, control_sender, lastcall,
                   sessVars, globVars, obsVars, ctlVars, pulses, last_content,
                   attempt, osVars, foreignAccess, libVars, accepted,
                   subVars, detVars>>

\* event_sender.send(change): the event goes to the end of the bus, which
\* keeps every event sent and retains the last Capacity of them for the
\* receivers; the send never waits.  heard: a receiver is subscribed (with
\* none the send returns Err and the event is dropped).  Either way the
\* worker logs the result and goes back to wait for the next pulse.
Publish(s, heard) ==
    /\ wpc[s] = "emit"
    /\ bus' = [bus EXCEPT ![sessMon[s]] =
                 IF heard THEN Append(@, pending[s]) ELSE @]
    /\ pending' = [pending EXCEPT ![s] = NoEvent]
    /\ wpc' = [wpc EXCEPT ![s] = "wait"]
    /\ UNCHANGED <<config, syncVars, cycVars, is_running, control_sender, lastcall,
                   sessVars, globVars, obsVars, ctlVars, pulses, last_content,
                   attempt, osVars, foreignAccess, libVars, accepted,
                   subVars, detVars>>

\* event_sender.send(change), while the monitor holds its _event_receiver.
WorkerSend(s) ==
    /\ wpc[s] = "emit"
    /\ Len(bus[sessMon[s]]) < MaxEvents
    /\ Publish(s, TRUE)

\* ------------------------------------------------------ the event bus
\* broadcast::channel: bus[m] keeps every event sent, in the order sent; the
\* channel retains the last Capacity of them.  A receiver is at the place
\* where it subscribed plus what it has moved since.
Pos(s) == subStart[s] + sub[s].ahead + 1

\* The place of the oldest event the channel retains.
Oldest(m) == IF Len(bus[m]) > Capacity THEN Len(bus[m]) - Capacity + 1 ELSE 1

\* The event at the receiver's place has been overwritten.
Lagged(s) == Pos(s) < Oldest(sessMon[s])

\* An event is retained at the receiver's place.
Ready(s) == ~Lagged(s) /\ Pos(s) <= Len(bus[sessMon[s]])

\* recv() that on lag moves to the newest event and reports no count.
AfterRecv_SkipsSilently(s) ==
    LET m == sessMon[s] IN
    IF Lagged(s)
    THEN [sub[s] EXCEPT !.ahead = Len(bus[m]) - 1 - subStart[s]]
    ELSE [sub[s] EXCEPT !.ahead = @ + 1,
                        !.got = Append(@, bus[m][Pos(s)])]

\* The receiver after event_receiver.recv() returned and the consumer
\* handled the result.  Err(Lagged(count)): the receiver moves to the oldest
\* retained event, count is the number of events it passed over, and the
\* consumer goes on with its loop.  Ok(change): the event at the receiver's
\* place, and the receiver moves one on.
AfterRecv(s) ==
    LET m == sessMon[s] IN
    IF Lagged(s)
    THEN [sub[s] EXCEPT !.ahead = Oldest(m) - 1 - subStart[s],
                        !.skipped = @ + (Oldest(m) - Pos(s))]
    ELSE [sub[s] EXCEPT !.ahead = @ + 1,
                        !.got = Append(@, bus[m][Pos(s)])]

\* The caller of start_monitoring consumes the receiver it was given:
\* recv() returns once an event is there or was missed.  (The monitor holds
\* a sender as long as it lives, so recv() never returns Closed here.)
HandleRecv(s) ==
    /\ s \in 1..nsess
    /\ Lagged(s) \/ Ready(s)
    /\ sub' = [sub EXCEPT ![s] = AfterRecv(s)]
    /\ UNCHANGED <<config, syncVars, monVars, sessVars, globVars, obsVars, ctlVars,
                   wrkVars, osVars, foreignAccess, libVars, cycVars, ordVars,
                   detVars, history, nhandled>>

\* ------------------------------------------- the bus, driven by lib.rs
\* The monitor object is alive: a start command holds it, or
\* CLIPBOARD_MONITOR does.  It owns event_sender and _event_receiver.
\* const MAX_HISTORY_SIZE: usize = 100
MAX_HISTORY_SIZE == 100

\* The ClipboardItem made from a change: its id (a fresh uuid, here the
\* number of the change) and its content.
Item(e) == [id |-> nhandled + 1, content |-> e.content]

\* push_front with nothing taken from the back.
PushFront_NoEviction(h, item) == <<item>> \o h

\* history_guard.push_front(item); if len() > MAX_HISTORY_SIZE, pop_back().
PushFront(h, item) ==
    LET pushed == <<item>> \o h IN
    IF Len(pushed) > MAX_HISTORY_SIZE
    THEN SubSeq(pushed, 1, Len(pushed) - 1)
    ELSE pushed

\* handle_clipboard_change_with_ai, as far as the history goes.
Handled(e) ==
    /\ history' = PushFront(history, Item(e))
    /\ nhandled' = nhandled + 1

\* The event processing task hands a change to
\* handle_clipboard_change_with_ai.
HandleClipboardChange ==
    /\ nhandled < MaxHandled
    /\ \E c \in {<<"a", "b">>} : Handled([content |-> c])
    /\ UNCHANGED <<config, syncVars, monVars, sessVars, globVars, obsVars, ctlVars,
                   wrkVars, osVars, foreignAccess, libVars, cycVars, ordVars,
                   sub, detVars>>

\* clear_clipboard_history
ClearClipboardHistory ==
    /\ history' = <<>>
    /\ UNCHANGED <<config, syncVars, monVars, sessVars, globVars, obsVars, ctlVars,
                   wrkVars, osVars, foreignAccess, libVars, cycVars, ordVars,
                   sub, nhandled, detVars>>

Held(m) == m \in cmd.started \/ CLIPBOARD_MONITOR = m

\* The event-processing task of the session holds its receiver (before the
\* task is spawned the command that started the monitor holds it).
TaskAlive(s) == proc[s].pc \in {"check", "recv"}

\* A receiver is subscribed to the monitor's bus.
Heard(m) == Held(m) \/ \E s \in SessionsOf(m) : TaskAlive(s)

\* Every sender of the monitor's bus is dropped: the monitor's own, the
\* clone in each session's context, and the clone each worker thread owns.
BusClosed(m) ==
    /\ ~Held(m)
    /\ \A s \in SessionsOf(m) : ~ctx[s].worker_tx /\ ~WorkerAlive(s)

\* The task's recv() that never reports the end of the stream.
TaskRecv_NeverClosed(s) ==
    /\ proc[s].pc = "recv"
    /\ Lagged(s) \/ Ready(s)
    /\ sub' = [sub EXCEPT ![s] = AfterRecv(s)]
    /\ IF Lagged(s) THEN UNCHANGED <<history, nhandled>>
       ELSE Handled(bus[sessMon[s]][Pos(s)])
    /\ proc' = [proc EXCEPT ![s].pc = "check"]
    /\ UNCHANGED <<config, syncVars, monVars, sessVars, globVars, obsVars, ctlVars,
                   wrkVars, osVars, foreignAccess, IS_RUNNING,
                   CLIPBOARD_MONITOR, cmd, cycVars, ordVars, detVars>>

\* event_receiver.recv().await in the task and the match on its result.
\* Ok: the event is handled and the loop goes round.  Lagged: the loop goes
\* round.  Closed, returned once nothing retained is left to read and every
\* sender is dropped: the loop is left and the task ends.
TaskRecv(s) ==
    /\ proc[s].pc = "recv"
    /\ IF Lagged(s) \/ Ready(s)
       THEN /\ sub' = [sub EXCEPT ![s] = AfterRecv(s)]
            /\ IF Lagged(s) THEN UNCHANGED <<history, nhandled>>
               ELSE Handled(bus[sessMon[s]][Pos(s)])
            /\ proc' = [proc EXCEPT ![s].pc = "check"]
       ELSE /\ BusClosed(sessMon[s])
            /\ proc' = [proc EXCEPT ![s].pc = "done"]
            /\ UNCHANGED <<sub, history, nhandled>>
    /\ UNCHANGED <<config, syncVars, monVars, sessVars, globVars, obsVars, ctlVars,
                   wrkVars, osVars, foreignAccess, IS_RUNNING,
                   CLIPBOARD_MONITOR, cmd, cycVars, ordVars, detVars>>

\* -------------------------------------------------------- ContentDetector
\* A text is a sequence of characters.  A character is written as itself; one
\* outside ASCII goes by a name: "euro" for the euro sign, "U+8DEF" for the
\* character at that code point.
Digit == {"0", "1", "2", "3", "4", "5", "6", "7", "8", "9"}

UpperSeq ==
    <<"A", "B", "C", "D", "E", "F", "G", "H", "I", "J", "K", "L", "M", "N",
      "O", "P", "Q", "R", "S", "T", "U", "V", "W", "X", "Y", "Z">>

LowerSeq ==
    <<"a", "b", "c", "d", "e", "f", "g", "h", "i", "j", "k", "l", "m", "n",
      "o", "p", "q", "r", "s", "t", "u", "v", "w", "x", "y", "z">>

Upper == {UpperSeq[i] : i \in DOMAIN UpperSeq}

Lower == {LowerSeq[i] : i \in DOMAIN LowerSeq}

\* char::to_lowercase
ToLower(c) ==
    IF c \in Upper
    THEN LowerSeq[CHOOSE i \in DOMAIN UpperSeq : UpperSeq[i] = c]
    ELSE c

\* str::to_lowercase
LowerCase(s) == [i \in DOMAIN s |-> ToLower(s[i])]

\* str::contains
Contains(s, kw) ==
    \E i \in 0..(Len(s) - Len(kw)) : SubSeq(s, i + 1, i + Len(kw)) = kw

\* The number of characters of s that are in the set.
CountIn(s, set) == Cardinality({i \in DOMAIN s : s[i] \in set})

\* Regular expressions, as the regex crate reads the patterns: a set of
\* characters, a named class, a literal (read without regard to case under
\* the i flag), a sequence, an alternation, a repetition (hi = -1: no upper
\* limit).
Set(cs) == [k |-> "set", cs |-> cs]

Cls(c) == [k |-> "cls", c |-> c]

Lit(s, ci) == [k |-> "lit", s |-> s, ci |-> ci]

Cat(rs) == [k |-> "seq", rs |-> rs]

Alt(rs) == [k |-> "alt", rs |-> rs]

Rep(r, lo, hi) == [k |-> "rep", r |-> r, lo |-> lo, hi |-> hi]

Opt(r) == Rep(r, 0, 1)

Star(r) == Rep(r, 0, -1)

Plus(r) == Rep(r, 1, -1)

\* . (any character but the line feed) and [^\s@]
InClass(c, x) ==
    CASE c = "any" -> x # "\n"
      [] c = "notSpaceAt" -> ~IsWhitespace(x) /\ x # "@"

\* Ends(re, s, i): the places of s where a match of re that starts after
\* the first i characters can end.
RECURSIVE Ends(_, _, _)

RECURSIVE SeqEnds(_, _, _, _)

RECURSIVE RepEnds(_, _, _, _)

Ends(re, s, i) ==
    CASE re.k = "set" -> IF i < Len(s) /\ s[i + 1] \in re.cs THEN {i + 1} ELSE {}
      [] re.k = "cls" -> IF i < Len(s) /\ InClass(re.c, s[i + 1]) THEN {i + 1} ELSE {}
      [] re.k = "lit" ->
            LET n == Len(re.s) IN
            IF /\ i + n <= Len(s)
               /\ \A j \in 1..n :
                     IF re.ci THEN ToLower(s[i + j]) = ToLower(re.s[j])
                     ELSE s[i + j] = re.s[j]
            THEN {i + n} ELSE {}
      [] re.k = "seq" -> SeqEnds(re.rs, 1, s, {i})
      [] re.k = "alt" -> UNION {Ends(re.rs[n], s, i) : n \in DOMAIN re.rs}
      [] re.k = "rep" -> RepEnds(re, s, {i}, 0)

\* The parts of a sequence from the n-th on, started at the places P.
SeqEnds(rs, n, s, P) ==
    IF n > Len(rs) THEN P
    ELSE SeqEnds(rs, n + 1, s, UNION {Ends(rs[n], s, p) : p \in P})

\* P: the places reached after n repetitions.
RepEnds(re, s, P, n) ==
    IF P = {} THEN {}
    ELSE (IF n >= re.lo THEN P ELSE {})
         \cup (IF n = re.hi THEN {}
               ELSE RepEnds(re, s, UNION {Ends(re.r, s, p) : p \in P}, n + 1))

\* Regex::is_match for a pattern anchored by ^ and $.
IsMatch(re, s) == Len(s) \in Ends(re, s, 0)

Space == Set({" ", "\n", "\t"})

\* ^(https?://|ftp://)?([a-zA-Z0-9.-]+\.[a-zA-Z]{2,})(:[0-9]+)?(/.*)?$
URL_REGEX ==
    Cat(<< Opt(Alt(<< Cat(<<Lit(<<"h", "t", "t", "p">>, FALSE), Opt(Lit(<<"s">>, FALSE)),
                          Lit(<<":", "/", "/">>, FALSE)>>),
                     Lit(<<"f", "t", "p", ":", "/", "/">>, FALSE) >>)),
           Plus(Set(Upper \cup Lower \cup Digit \cup {".", "-"})),
           Lit(<<".">>, FALSE),
           Rep(Set(Upper \cup Lower), 2, -1),
           Opt(Cat(<<Lit(<<":">>, FALSE), Plus(Set(Digit))>>)),
           Opt(Cat(<<Lit(<<"/">>, FALSE), Star(Cls("any"))>>)) >>)

IsUrl(content) == IsMatch(URL_REGEX, content)

\* ^[^\s@]+@[^\s@]+\.[^\s@]+$
EMAIL_REGEX ==
    Cat(<< Plus(Cls("notSpaceAt")), Lit(<<"@">>, FALSE),
           Plus(Cls("notSpaceAt")), Lit(<<".">>, FALSE),
           Plus(Cls("notSpaceAt")) >>)

IsEmail(content) == IsMatch(EMAIL_REGEX, content)

\* \d{1,3}(?:[,\d]{0,12})(?:[.]\d{1,2})?
Amount ==
    Cat(<< Rep(Set(Digit), 1, 3),
           Rep(Set(Digit \cup {","}), 0, 12),
           Opt(Cat(<<Lit(<<".">>, FALSE), Rep(Set(Digit), 1, 2)>>)) >>)

\* (?ix) ^\s*(?:\p{Sc})\s*\d{1,3}(?:[,\d]{0,12})(?:[.]\d{1,2})?\s*$
\* with the dollar and the euro sign for \p{Sc}
SYMBOL_REGEX ==
    Cat(<< Star(Space), Set({"$", "euro"}), Star(Space), Amount, Star(Space) >>)

\* (?ix) ^\s*(?:USD|EUR|JPY|TWD|NTD|NT\$?)\s*\d{1,3}...\s*$ |
\*       ^\s*\d{1,3}...\s*(?:USD|EUR|JPY|TWD|NTD|NT)\s*$
CODE_REGEX ==
    LET codes ==
            <<Lit(<<"U", "S", "D">>, TRUE), Lit(<<"E", "U", "R">>, TRUE),
              Lit(<<"J", "P", "Y">>, TRUE), Lit(<<"T", "W", "D">>, TRUE),
              Lit(<<"N", "T", "D">>, TRUE), Lit(<<"N", "T">>, TRUE)>>
        nt_dollar == Cat(<<codes[6], Opt(Lit(<<"$">>, TRUE))>>)
    IN Alt(<< Cat(<< Star(Space), Alt(SubSeq(codes, 1, 5) \o <<nt_dollar>>),
                     Star(Space), Amount, Star(Space) >>),
              Cat(<< Star(Space), Amount, Star(Space), Alt(codes),
                     Star(Space) >>) >>)

IsFinancial(content) ==
    IsMatch(SYMBOL_REGEX, content) \/ IsMatch(CODE_REGEX, content)

\* DATE_REGEX: year-month-day, day-month-year, month-day-year with - or /
\* between the parts, or a time of day.
DATE_REGEX ==
    LET \* (?:19|20)\d{2}
        Year == Cat(<<Alt(<<Lit(<<"1", "9">>, FALSE), Lit(<<"2", "0">>, FALSE)>>),
                      Rep(Set(Digit), 2, 2)>>)
        \* (?:0[1-9]|1[0-2])
        Month == Alt(<< Cat(<<Lit(<<"0">>, FALSE), Set(Digit \ {"0"})>>),
                        Cat(<<Lit(<<"1">>, FALSE), Set({"0", "1", "2"})>>) >>)
        \* (?:0[1-9]|[12]\d|3[01])
        Day == Alt(<< Cat(<<Lit(<<"0">>, FALSE), Set(Digit \ {"0"})>>),
                      Cat(<<Set({"1", "2"}), Set(Digit)>>),
                      Cat(<<Lit(<<"3">>, FALSE), Set({"0", "1"})>>) >>)
        \* [-/]
        DateSep == Set({"-", "/"})
        \* [0-5]\d
        Sixty == Cat(<<Set({"0", "1", "2", "3", "4", "5"}), Set(Digit)>>)
        \* (?:[01]\d|2[0-3]):[0-5]\d(?::[0-5]\d)?
        TimeOfDay ==
            Cat(<< Alt(<< Cat(<<Set({"0", "1"}), Set(Digit)>>),
                          Cat(<<Lit(<<"2">>, FALSE),
                                Set({"0", "1", "2", "3"})>>) >>),
                   Lit(<<":">>, FALSE), Sixty,
                   Opt(Cat(<<Lit(<<":">>, FALSE), Sixty>>)) >>)
    IN Alt(<< Cat(<<Year, DateSep, Month, DateSep, Day>>),
              Cat(<<Day, DateSep, Month, DateSep, Year>>),
              Cat(<<Month, DateSep, Day, DateSep, Year>>),
              TimeOfDay >>)

IsDateTime(content) == IsMatch(DATE_REGEX, content)

\* is_phone with the upper limit one digit further.
IsPhone_SixteenDigits(content) ==
    LET digits == CountIn(content, Digit) IN
    /\ ~(digits < 7 \/ digits > 16)
    /\ ~(":" \in {content[i] : i \in DOMAIN content})
    /\ \A i \in DOMAIN content :
          content[i] \in Digit \cup {"+", "-", " ", "(", ")"}

\* is_phone: 7 to 15 ASCII digits, no colon, and nothing but digits, +, -,
\* space and parentheses.
IsPhone(content) ==
    LET digits == CountIn(content, Digit) IN
    /\ ~(digits < 7 \/ digits > 15)
    /\ ~(":" \in {content[i] : i \in DOMAIN content})
    /\ \A i \in DOMAIN content :
          content[i] \in Digit \cup {"+", "-", " ", "(", ")"}

code_keywords ==
    {<<"d", "e", "f", " ">>,
     <<"f", "u", "n", "c", "t", "i", "o", "n", " ">>,
     <<"c", "l", "a", "s", "s", " ">>,
     <<"i", "m", "p", "o", "r", "t", " ">>,
     <<"#", "i", "n", "c", "l", "u", "d", "e">>,
     <<"c", "o", "n", "s", "o", "l", "e", ".", "l", "o", "g">>,
     <<"p", "r", "i", "n", "t", "l", "n">>,
     <<"S", "y", "s", "t", "e", "m", ".", "o", "u", "t">>,
     <<"c", "o", "u", "t", " ", "<", "<">>,
     <<"<", "?", "p", "h", "p">>,
     <<"#", "!", "/">>,
     <<"<", "s", "c", "r", "i", "p", "t", ">">>,
     <<"p", "u", "b", "l", "i", "c", " ", "c", "l", "a", "s", "s">>,
     <<"p", "r", "i", "v", "a", "t", "e", " ">>,
     <<"v", "o", "i", "d", " ">>}

sql_keywords ==
    {<<"s", "e", "l", "e", "c", "t", " ">>, <<"f", "r", "o", "m", " ">>, <<"w", "h", "e", "r", "e", " ">>}

\* str::lines().count() of a text that ends in no line feed
LineCount(s) == IF s = <<>> THEN 0 ELSE CountIn(s, {"\n"}) + 1

\* is_code: a keyword in the lowercased text, or at least 5 lines with more
\* than 2 parentheses per 100 characters.
IsCode(content) ==
    LET lower == LowerCase(content)
        has_keywords == \E kw \in code_keywords : Contains(lower, kw)
        has_sql == \E kw \in sql_keywords : Contains(lower, kw)
        multiple_lines == LineCount(content) >= 5
        total_chars == IF Len(content) > 1 THEN Len(content) ELSE 1
        paren_count == CountIn(content, {"(", ")"})
    IN has_keywords \/ has_sql
          \/ (multiple_lines /\ 100 * paren_count > 2 * total_chars)

address_keywords ==
    {"U+8857", "U+8DEF", "U+5DF7", "U+5F04", "U+865F",
     "U+6A13", "U+5BA4", "U+5E02", "U+7E23", "U+6BB5"}

\* is_address: at least 2 of the keywords occur in the text.
IsAddress(content) ==
    Cardinality({kw \in address_keywords : Contains(content, <<kw>>)}) >= 2

\* detect with the phone test moved before the date test.
Detect_PhoneFirst(content) ==
    LET c == Trim(content) IN
    IF IsUrl(c) THEN "Url"
    ELSE IF IsEmail(c) THEN "Email"
    ELSE IF IsFinancial(c) THEN "Financial"
    ELSE IF IsPhone(c) THEN "Phone"
    ELSE IF IsDateTime(c) THEN "DateTime"
    ELSE IF IsCode(c) THEN "Code"
    ELSE IF IsAddress(c) THEN "Address"
    ELSE "PlainText"

\* ContentDetector::detect
Detect(content) ==
    LET c == Trim(content) IN
    IF IsUrl(c) THEN "Url"
    ELSE IF IsEmail(c) THEN "Email"
    ELSE IF IsFinancial(c) THEN "Financial"
    ELSE IF IsDateTime(c) THEN "DateTime"
    ELSE IF IsPhone(c) THEN "Phone"
    ELSE IF IsCode(c) THEN "Code"
    ELSE IF IsAddress(c) THEN "Address"
    ELSE "PlainText"

\* The texts of the detector's tests.

DateIso ==
    <<"2", "0", "2", "4", "-", "0", "1", "-", "1", "5">>

AddressChinese ==
    <<"U+53F0", "U+5317", "U+5E02", "U+4FE1", "U+7FA9", "U+5340", "U+4FE1",
      "U+7FA9", "U+8DEF", "U+4E94", "U+6BB5", "7", "U+865F">>

AddressEnglish ==
    <<"1", "2", "3", " ", "M", "a", "i", "n", " ", "S", "t", "r", "e", "e",
      "t", ",", " ", "N", "e", "w", " ", "Y", "o", "r", "k">>

Samples ==
    { <<"h", "t", "t", "p", "s", ":", "/", "/", "g", "i", "t", "h", "u",
        "b", ".", "c", "o", "m", "/", "m", "i", "c", "r", "o", "s", "o",
        "f", "t", "/", "v", "s", "c", "o", "d", "e">>,
      <<"f", "t", "p", ":", "/", "/", "f", "i", "l", "e", "s", ".", "e",
        "x", "a", "m", "p", "l", "e", ".", "c", "o", "m">>,
      <<"n", "o", "t", " ", "a", " ", "u", "r", "l">>,
      <<"t", "e", "s", "t", "@", "e", "x", "a", "m", "p", "l", "e", ".",
        "c", "o", "m">>,
      <<"u", "s", "e", "r", ".", "n", "a", "m", "e", "@", "d", "o", "m",
        "a", "i", "n", ".", "o", "r", "g">>,
      <<"@", "i", "n", "c", "o", "m", "p", "l", "e", "t", "e">>,
      <<"+", "8", "8", "6", "9", "1", "2", "3", "4", "5", "6", "7", "8">>,
      <<"0", "9", "1", "2", "-", "3", "4", "5", "-", "6", "7", "8">>,
      <<"(", "0", "2", ")", " ", "1", "2", "3", "4", "-", "5", "6", "7", "8">>,
      <<"1", "2", "3">>,
      <<"f", "u", "n", "c", "t", "i", "o", "n", " ", "t", "e", "s", "t",
        "(", ")", " ", "{", " ", "r", "e", "t", "u", "r", "n", " ", "4",
        "2", ";", " ", "}">>,
      <<"#", "i", "n", "c", "l", "u", "d", "e", " ", "<", "s", "t", "d",
        "i", "o", ".", "h", ">">>,
      <<"S", "E", "L", "E", "C", "T", " ", "*", " ", "F", "R", "O", "M",
        " ", "u", "s", "e", "r", "s">>,
      <<"$", "1", "0", "0">>,
      <<"N", "T", "$", "1", "0", "0", "0">>,
      <<"euro", "5", "0">>,
      <<"1", "0", "0", " ", "U", "S", "D">>,
      DateIso,
      <<"0", "1", "/", "1", "5", "/", "2", "0", "2", "4">>,
      <<"1", "4", ":", "3", "0">>,
      AddressChinese,
      AddressEnglish,
      <<"s", "h", "o", "r", "t", " ", "s", "t">> }

detFrame == <<config, syncVars, monVars, sessVars, globVars, obsVars, ctlVars, wrkVars,
              osVars, foreignAccess, libVars, cycVars, ordVars, subVars>>

\* Texts at the limits of the phone rule and of the code rule.
EdgeTexts ==
    { <<"1", "2", "3", "4", "5", "6">>,
      <<"1", "2", "3", "4", "5", "6", "7">>,
      <<"1", "2", "3", "4", "5", "6", "7", "8", "9", "0", "1", "2", "3",
        "4", "5">>,
      <<"1", "2", "3", "4", "5", "6", "7", "8", "9", "0", "1", "2", "3",
        "4", "5", "6">>,
      <<"1", "2", ":", "3", "0", ":", "4", "5">>,
      <<"+", "1", " ", "(", "2", "3", "4", ")", " ", "5", "6", "7">>,
      <<"x", " ", "=", " ", "S", "y", "s", "t", "e", "m", ".", "o", "u",
        "t", ";">>,
      <<"P", "R", "I", "N", "T", "L", "N">>,
      <<"D", "e", "f", " ", "f">>,
      <<"(", "\n", "(", "\n", "(", "\n", "(", "\n", "(">>,
      <<"(", "\n", "(", "\n", "(", "\n", "(">> }

\* A text is handed to the detector.
Paste(t) ==
    /\ input' = t
    /\ detected' = "none"
    /\ UNCHANGED <<detFrame, made>>

\* One more character at the end of the text.
Type(c) ==
    /\ Len(input) < MaxText
    /\ input' = Append(input, c)
    /\ detected' = "none"
    /\ UNCHANGED <<detFrame, made>>

\* detector.detect(input)
Classify ==
    /\ detected = "none"
    /\ detected' = Detect(input)
    /\ UNCHANGED <<detFrame, input, made>>

\* ---------------------------------------------------------- ClipboardEvent
\* The byte of a character of the texts hashed here.
ByteOf(c) ==
    IF c \in Lower THEN 96 + (CHOOSE i \in DOMAIN LowerSeq : LowerSeq[i] = c)
    ELSE IF c \in Upper THEN 64 + (CHOOSE i \in DOMAIN UpperSeq : UpperSeq[i] = c)
    ELSE CASE c = "." -> 46 [] c = "/" -> 47 [] c = ":" -> 58 [] OTHER -> 63

\* Hasher::write over the bytes of the text, on a 16-bit state.
RECURSIVE HashBytes(_, _)
HashBytes(s, h) ==
    IF s = <<>> THEN h
    ELSE HashBytes(Tail(s), (31 * h + ByteOf(Head(s))) % 65536)

\* format!("{:x}", n): lowercase hexadecimal, no leading zeros.
RECURSIVE Hex(_)
Hex(n) ==
    LET digits == <<"0", "1", "2", "3", "4", "5", "6", "7", "8", "9",
                    "a", "b", "c", "d", "e", "f">>
    IN IF n < 16 THEN <<digits[n + 1]>>
       ELSE Append(Hex(n \div 16), digits[(n % 16) + 1])

\* calculate_hash with a hasher keyed anew at every call.
CalculateHash_RandomState(content) ==
    Hex((31 * HashBytes(content, 1 + Len(made)) + 255) % 65536)

\* calculate_hash: DefaultHasher::new() has fixed keys; str::hash writes the
\* bytes and then 0xff.
CalculateHash(content) ==
    Hex((31 * HashBytes(content, 0) + 255) % 65536)

UrlExample ==
    <<"h", "t", "t", "p", "s", ":", "/", "/", "e", "x", "a", "m", "p", "l",
      "e", ".", "c", "o", "m">>

\* The contents events are made from, and the applications they come from.
HashTexts == {<<"a", "b">>, <<"b", "a">>, UrlExample}

SourceApps == {"none", "browser"}

\* ClipboardEvent::new, called at the time at.
NewEvent(content, content_type, source_app, at) ==
    /\ Len(made) < MaxMade
    /\ made' = Append(made, [content        |-> content,
                             content_type   |-> content_type,
                             timestamp      |-> at,
                             source_app     |-> source_app,
                             content_hash   |-> CalculateHash(content),
                             content_length |-> ByteLen(content)])
    /\ UNCHANGED <<detFrame, input, detected>>

\* ContentDetector::create_event
CreateEvent(content, source_app, at) ==
    LET content_type == Detect(content) IN
    /\ NewEvent(content, content_type, source_app, at)

\* ------------------------------------------------------------ specifications
Threads ==
    \/ \E s \in Sessions, d \in BOOLEAN : ControlStop(s, d)
    \/ \E s \in Sessions : ControlJoin(s)
    \/ \E s \in Sessions, r \in RegOutcomes : ObserverRegister(s, r)
    \/ \E s \in Sessions : ObserverGetMessage(s)
    \/ \E s \in Sessions, ok \in BOOLEAN : WorkerInit(s, ok)
    \/ \E s \in Sessions, early \in BOOLEAN : WorkerRecv(s, early)
    \/ \E s \in Sessions : WorkerDrain(s)
    \/ \E s \in Sessions, ok \in BOOLEAN : WorkerRead(s, ok)

System ==
    \/ \E c \in Contents : ClipboardChange(c)
    \/ ExtraNotify

\* One monitor driven through its own interface, as the tests drive it, with
\* any configuration, and restarted only once every thread of the session
\* before has ended.
TestMonitor == CHOOSE m \in Monitors : \A n \in Monitors : m <= n

Settled ==
    \A s \in 1..nsess :
        ~WorkerAlive(s) /\ ~ObserverAlive(s) /\ ctl[s] = "done"

SerialStart ==
    /\ is_running[TestMonitor] \/ (nsess < MaxRestarts /\ Settled)
    /\ StartMonitoring(TestMonitor)
    /\ UNCHANGED libVars

ApiStop ==
    /\ StopMonitoringSync(TestMonitor)
    /\ UNCHANGED libVars

Init == InitWith(Configs)

Next == SerialStart \/ ApiStop \/ Threads \/ System

Spec == Init /\ [][Next]_vars

\* The same monitor, constructed as the tests construct it
\* (ClipboardMonitor::new(None)), restarted at any time after a stop.  The
\* clipboard is always readable, no cycle starts within the debounce time
\* of the one before, and one text is copied.
QuietThreads ==
    \/ \E s \in Sessions, d \in BOOLEAN : ControlStop(s, d)
    \/ \E s \in Sessions : ControlJoin(s)
    \/ \E s \in Sessions, r \in RegOutcomes : ObserverRegister(s, r)
    \/ \E s \in Sessions : ObserverGetMessage(s)
    \/ \E s \in Sessions : WorkerInit(s, TRUE)
    \/ \E s \in Sessions : WorkerRecv(s, FALSE)
    \/ \E s \in Sessions : WorkerRead(s, TRUE)

OneText == CHOOSE c \in Contents : TRUE

ApiStart ==
    /\ is_running[TestMonitor] \/ nsess < MaxSessions
    /\ StartMonitoring(TestMonitor)
    /\ UNCHANGED libVars

InitDefault == InitWith({DefaultConfig})

NextRestart == ApiStart \/ ApiStop \/ QuietThreads \/ ClipboardChange(OneText)

SpecRestart == InitDefault /\ [][NextRestart]_vars

\* The application: the monitor driven by the commands of lib.rs.
Commands ==
    \/ LibStartCheck
    \/ nsess < MaxSessions /\ LibStartMonitor
    \/ \E m \in Monitors : LibStartStore(m)
    \/ LibStop
    \/ \E s \in Sessions : ProcCheck(s)
    \/ \E s \in Sessions : ProcRecv(s)
    \/ clipboard.gen < MaxLibChanges /\ CopyItemToClipboard(OneText)

NextLib ==
    \/ Commands
    \/ QuietThreads
    \/ clipboard.gen < MaxLibChanges /\ ClipboardChange(OneText)

SpecLib == InitDefault /\ [][NextLib]_vars

\* One monitor started once, its worker followed through the clock: pulses
\* arrive at any time, any text is copied, any read may fail.
WorkerStart ==
    /\ nsess = 0
    /\ StartMonitoring(TestMonitor)
    /\ UNCHANGED libVars

InitWorker == InitWith(WorkerConfigs)

NextWorker ==
    \/ WorkerStart
    \/ \E gap \in Gaps(config) : Pulse(gap)
    \/ \E c \in Texts : ClipboardChange(c)
    \/ \E ok \in BOOLEAN : TimedInit(ok)
    \/ TimedRecv
    \/ TimedDrain
    \/ \E ok \in BOOLEAN : TimedRead(ok)
    \/ TimedBackoff

SpecWorker == InitWorker /\ [][NextWorker]_vars

\* The monitor restarted at any time after a stop, its workers followed
\* from the creation of an event to its send.
OrderThreads ==
    \/ \E s \in Sessions, d \in BOOLEAN : ControlStop(s, d)
    \/ \E s \in Sessions : ControlJoin(s)
    \/ \E s \in Sessions : ObserverRegister(s, "ok")
    \/ \E s \in Sessions : ObserverGetMessage(s)
    \/ \E s \in Sessions : WorkerInit(s, TRUE)
    \/ \E s \in Sessions : WorkerRecv(s, FALSE)
    \/ \E s \in Sessions : WorkerAccept(s)
    \/ \E s \in Sessions : WorkerSend(s)

NextOrder ==
    \/ ApiStart
    \/ ApiStop
    \/ OrderThreads
    \/ ClipboardChange(OneText)
    \/ ExtraNotify

SpecOrder == InitDefault /\ [][NextOrder]_vars

\* The monitor constructed with the default configuration, restarted once
\* the threads of the session before have ended, its workers publishing on
\* the bus and the callers of start_monitoring consuming, each at its own
\* pace or not at all.
BusThreads ==
    \/ \E s \in Sessions, d \in BOOLEAN : ControlStop(s, d)
    \/ \E s \in Sessions : ControlJoin(s)
    \/ \E s \in Sessions : ObserverRegister(s, "ok")
    \/ \E s \in Sessions : ObserverGetMessage(s)
    \/ \E s \in Sessions : WorkerInit(s, TRUE)
    \/ \E s \in Sessions : WorkerRecv(s, FALSE)
    \/ \E s \in Sessions : WorkerAccept(s)
    \/ \E s \in Sessions : Publish(s, TRUE)

NextBus ==
    \/ SerialStart
    \/ ApiStop
    \/ BusThreads
    \/ \E c \in Contents : ClipboardChange(c)
    \/ ExtraNotify
    \/ \E s \in Sessions : HandleRecv(s)

SpecBus == InitDefault /\ [][NextBus]_vars

\* The monitor stopped and restarted, one text copied, with every thread
\* scheduled: a spawned thread or task that can take a step does take one,
\* and a join that can end does end.  The caller may stop calling start and
\* stop at any time, and the worker may fail to open the clipboard.
StopThreads ==
    \/ \E s \in Sessions, d \in BOOLEAN : ControlStop(s, d)
    \/ \E s \in Sessions : ControlJoin(s)
    \/ \E s \in Sessions : ObserverRegister(s, "ok")
    \/ \E s \in Sessions : ObserverGetMessage(s)
    \/ \E s \in Sessions, ok \in BOOLEAN : WorkerInit(s, ok)
    \/ \E s \in Sessions : WorkerRecv(s, FALSE)
    \/ \E s \in Sessions : WorkerAccept(s)
    \/ \E s \in Sessions : Publish(s, TRUE)

NextStop ==
    \/ SerialStart
    \/ ApiStop
    \/ StopThreads
    \/ ClipboardChange(OneText)

ThreadFairness ==
    \A s \in Sessions :
        /\ WF_vars(\E d \in BOOLEAN : ControlStop(s, d))
        /\ WF_vars(ControlJoin(s))
        /\ WF_vars(ObserverRegister(s, "ok"))
        /\ WF_vars(ObserverGetMessage(s))
        /\ WF_vars(\E ok \in BOOLEAN : WorkerInit(s, ok))
        /\ WF_vars(WorkerRecv(s, FALSE))
        /\ WF_vars(WorkerAccept(s))
        /\ WF_vars(Publish(s, TRUE))

SpecStop == InitDefault /\ [][NextStop]_vars /\ ThreadFairness

\* The application with its event bus, through one session: monitoring is
\* started by start_clipboard_monitoring and stopped by
\* stop_clipboard_monitoring, with the threads of the session, its
\* event-processing task, and the texts copied meanwhile.  Every thread and
\* task is scheduled, and a command that has begun goes on to its end; the
\* user gives one command at a time and may never give the next.
CloseThreads ==
    \/ \E s \in Sessions, d \in BOOLEAN : ControlStop(s, d)
    \/ \E s \in Sessions : ControlJoin(s)
    \/ \E s \in Sessions : ObserverRegister(s, "ok")
    \/ \E s \in Sessions : ObserverGetMessage(s)
    \/ \E s \in Sessions : WorkerInit(s, TRUE)
    \/ \E s \in Sessions : WorkerRecv(s, FALSE)
    \/ \E s \in Sessions : WorkerAccept(s)
    \/ \E s \in Sessions : Publish(s, Heard(sessMon[s]))

\* No command is in flight.
Idle == cmd.awaiting = 0 /\ cmd.started = {}

NextClose ==
    \/ Idle /\ nsess = 0 /\ LibStartCheck
    \/ nsess = 0 /\ LibStartMonitor
    \/ \E m \in Monitors : LibStartStore(m)
    \/ Idle /\ LibStop
    \/ \E s \in Sessions : ProcCheck(s)
    \/ \E s \in Sessions : TaskRecv(s)
    \/ CloseThreads
    \/ clipboard.gen < MaxLibChanges /\ ClipboardChange(OneText)

CloseFairness ==
    /\ WF_vars(nsess = 0 /\ LibStartMonitor)
    /\ \A m \in Monitors : WF_vars(LibStartStore(m))
    /\ \A s \in Sessions :
        /\ WF_vars(ProcCheck(s))
        /\ WF_vars(TaskRecv(s))
        /\ WF_vars(\E d \in BOOLEAN : ControlStop(s, d))
        /\ WF_vars(ControlJoin(s))
        /\ WF_vars(ObserverRegister(s, "ok"))
        /\ WF_vars(ObserverGetMessage(s))
        /\ WF_vars(WorkerInit(s, TRUE))
        /\ WF_vars(WorkerRecv(s, FALSE))
        /\ WF_vars(WorkerAccept(s))
        /\ WF_vars(Publish(s, Heard(sessMon[s])))

SpecClose == InitDefault /\ [][NextClose]_vars /\ CloseFairness

\* start_monitoring taken statement by statement: the threads of the
\* session being started and of the one before run between its statements;
\* stop needs the monitor, which start holds until it returns.
NextSteps ==
    \/ /\ nsess < MaxRestarts
       /\ Settled
       /\ StartSubscribe(TestMonitor)
       /\ UNCHANGED libVars
    \/ StartSpawnWorker /\ UNCHANGED libVars
    \/ StartSetContext /\ UNCHANGED libVars
    \/ StartSpawnObserver /\ UNCHANGED libVars
    \/ spc = "idle" /\ ApiStop
    \/ BusThreads
    \/ \E c \in Contents : ClipboardChange(c)
    \/ \E s \in Sessions : HandleRecv(s)

SpecSteps == InitDefault /\ [][NextSteps]_vars

\* One monitor started and stopped through its own interface, its calling
\* thread, observer threads and control tasks followed statement by
\* statement.  The monitor is started again once a stop has returned and
\* the worker of the session before has ended, whatever the observer
\* thread and the control task of that session are doing.
NextSync ==
    \/ /\ nsess < MaxRestarts
       /\ \A s \in 1..nsess : ~WorkerAlive(s)
       /\ StartSubscribe(TestMonitor)
       /\ UNCHANGED libVars
    \/ StartSpawnWorker /\ UNCHANGED libVars
    \/ StartSetContext /\ UNCHANGED libVars
    \/ StartSpawnObserver /\ UNCHANGED libVars
    \/ spc = "idle" /\ ApiStop
    \/ \E s \in Sessions, created \in BOOLEAN : ObserverCreateWindow(s, created)
    \/ \E s \in Sessions : ObserverReadContext(s)
    \/ \E s \in Sessions : ObserverLock(s)
    \/ \E s \in Sessions : ObserverRecord(s)
    \/ \E s \in Sessions, ok \in BOOLEAN : ObserverListen(s, ok)
    \/ \E s \in Sessions : ObserverGet(s)
    \/ \E s \in Sessions : ObserverCheck(s)
    \/ \E s \in Sessions : ObserverSend(s)
    \/ \E s \in Sessions : StopStore(s)
    \/ \E s \in Sessions : StopReadContext(s)
    \/ \E s \in Sessions : StopLock(s)
    \/ \E s \in Sessions, d \in BOOLEAN : StopWindow(s, d)
    \/ \E s \in Sessions : StopClearContext(s)
    \/ \E s \in Sessions : StopTakeHandle(s)
    \/ \E s \in Sessions : ControlJoin(s)
    \/ \E s \in Sessions : WorkerInit(s, TRUE)
    \/ \E s \in Sessions : WorkerRecv(s, FALSE)
    \/ \E s \in Sessions : WorkerRead(s, TRUE)
    \/ ClipboardChange(OneText)

SpecSync == InitDefault /\ [][NextSync]_vars

\* The history alone: changes are handled and the history is cleared.
NextHistory ==
    \/ HandleClipboardChange
    \/ ClearClipboardHistory

SpecHistory == InitDefault /\ [][NextHistory]_vars

\* The detector alone: texts are pasted or typed, then classified.
NextDetect ==
    \/ \E t \in Samples \cup EdgeTexts : Paste(t)
    \/ \E c \in {"1", "-", ":", ".", "a", " "} : Type(c)
    \/ Classify

SpecDetect == InitDefault /\ [][NextDetect]_vars

\* Events made from any content, for any application, at any time.
NextEvent ==
    \/ \E c \in HashTexts, a \in SourceApps, t \in 0..MaxClock :
          CreateEvent(c, a, t)
    \/ \E c \in HashTexts, ty \in {"PlainText", "Code"}, a \in SourceApps,
          t \in 0..MaxClock : NewEvent(c, ty, a, t)

SpecEvent == InitDefault /\ [][NextEvent]_vars

\* ------------------------------------------------------------------ claims
\* C1: a session started after a stop behaves like a first start: while it
\* is the monitor's running session its context stays the global context,
\* its pulse sender stays alive, and its worker does not stop.
C1_RestartLikeFirstStart ==
    \A s \in Sessions :
        Active(s) =>
            /\ GLOBAL_CONTEXT = s
            /\ ctx[s].worker_tx
            /\ wpc[s] # "stopped"

\* C2: at any time at most one worker thread and at most one observer
\* thread are alive, whatever the interleaving of the start and stop commands.
C2_AtMostOneSession ==
    /\ Cardinality({s \in Sessions : WorkerAlive(s)}) <= 1
    /\ Cardinality({s \in Sessions : ObserverAlive(s)}) <= 1

\* C3: in every state in which stop has returned Ok, the observer thread of
\* the session it stopped has ended and its listener is unregistered.
C3_StopJoinsObserver ==
    \A m \in Monitors :
        lastcall[m] = "stop_ok" =>
            \A s \in SessionsOf(m) : ~ObserverAlive(s) /\ ~listening[s]

\* C4: a session whose observer failed to register with the OS is not left
\* running (start did not hand out a subscription for it), and its window
\* raises no pulse.
C4_RegistrationFailureFailsStart ==
    \A s \in Sessions :
        obs[s] = "failed" => ~Active(s) /\ ~listening[s] /\ msgq[s] = 0

\* C5: every start_monitoring call on a running monitor returns the
\* already-running error and changes nothing else: no session, thread,
\* channel or subscription is created and is_running stays true.
C5_StartWhileRunningRejected ==
    [][\A m \in Monitors :
          (is_running[m] /\ StartMonitoring(m)) =>
              /\ lastcall'[m] = "start_err"
              /\ is_running'[m]
              /\ UNCHANGED <<config, syncVars, cycVars, ordVars, subVars, detVars,
                             is_running, control_sender, bus, sessVars,
                             globVars, obsVars, ctlVars, wrkVars, osVars>>]_vars

C5_Witness ==
    is_running[TestMonitor] /\ lastcall[TestMonitor] = "start_err"

\* C6: every stop call on a monitor that is not running returns the
\* not-running error and changes nothing else: is_running stays false, no
\* Stop is sent and nothing is torn down.
C6_StopWhileStoppedRejected ==
    [][\A m \in Monitors :
          (~is_running[m] /\ StopMonitoringSync(m)) =>
              /\ lastcall'[m] = "stop_err"
              /\ ~is_running'[m]
              /\ UNCHANGED <<config, syncVars, cycVars, ordVars, subVars, detVars,
                             is_running, control_sender, bus, sessVars,
                             globVars, obsVars, ctlVars, wrkVars, osVars>>]_vars

C6_Witness ==
    /\ ~is_running[TestMonitor]
    /\ lastcall[TestMonitor] = "stop_err"
    /\ nsess > 0

\* C7: is_running is false on a new monitor, true after a start that
\* returned Ok (and after a rejected start), false after a stop that
\* returned Ok; a stop on a running monitor never returns an error.
C7_RunningFlagFollowsCalls ==
    \A m \in Monitors :
        /\ lastcall[m] \in {"new", "stop_ok", "stop_err"} => ~is_running[m]
        /\ lastcall[m] \in {"start_ok", "start_err"} => is_running[m]
        /\ lastcall[m] # "stop_senderr"

\* A restarted session stopped with no clipboard change in between.
C7_Witness ==
    /\ lastcall[TestMonitor] = "stop_ok"
    /\ nsess >= 2
    /\ clipboard.gen = 0

\* C8: no thread other than a worker touches the clipboard while a
\* monitoring session is active.
C8_WorkerOwnsClipboard == ~foreignAccess

\* The filters that do not depend on what was accepted before.
PassesFilters(cfg, c) == Accepted(cfg, NoContent, c)

\* The session's worker has published an event for the current clipboard.
Published(s) ==
    \E i \in DOMAIN bus[sessMon[s]] :
        /\ bus[sessMon[s]][i].by = s
        /\ bus[sessMon[s]][i].gen = clipboard.gen

\* Both threads of the session came up: the listener is registered and the
\* worker owns a clipboard handle and waits for pulses.
Listening(s) == obs[s] = "loop" /\ listening[s] /\ wpc[s] = "wait"

\* C9: no change is lost.  A session that was active when the clipboard
\* changed to a text that passes the filters and differs from what it last
\* accepted, that is still active with the clipboard unchanged, whose
\* listener and worker are up and none of whose reads ran out of retries,
\* has published that text once no thread has a step left to take.
C9_NoChangeLost ==
    \A s \in owed :
        (/\ Active(s)
         /\ Listening(s)
         /\ PassesFilters(config, clipboard.content)
         /\ ~ENABLED Threads)
            => Published(s)

Emitted == bus[TestMonitor]

\* C11: every burst of pulses (each less than debounce_ms after the one
\* before) starts at most one read cycle.
C11_BurstOneReadCycle ==
    \A b \in DOMAIN cycles : cycles[b] <= 1

\* C12: a cycle whose read fails k times, 1 <= k < retry_max, and then
\* succeeds with a text that passes the filters sends exactly one event,
\* whose source_detection_time_ms is at least the k backoff delays slept.
C12_RetryThenOneEvent ==
    [][(/\ wpc[W] = "read"
        /\ attempt[W] >= 1
        /\ attempt[W] < config.retry_max
        /\ Accepted(config, last_content[W], clipboard.content)
        /\ TimedRead(TRUE))
       => /\ Len(Emitted') = Len(Emitted) + 1
          /\ SubSeq(Emitted', 1, Len(Emitted)) = Emitted
          /\ Emitted'[Len(Emitted')].content = clipboard.content
          /\ Emitted'[Len(Emitted')].backoff = slept
          /\ Emitted'[Len(Emitted')].source_detection_time_ms >= slept]_vars

C12_Witness ==
    \E i \in DOMAIN Emitted :
        /\ Emitted[i].backoff > 0
        /\ Emitted[i].source_detection_time_ms >= Emitted[i].backoff

\* C13: a cycle makes at most retry_max read attempts; when they are used
\* up the cycle ends with no event, last_content as it was, and the worker
\* waiting for the next pulse.
C13_RetryExhaustedSkips ==
    [][/\ attempt'[W] <= config.retry_max
       /\ (wpc[W] = "read" /\ wpc'[W] # "read" /\ attempt[W] >= config.retry_max)
            => /\ wpc'[W] = "wait"
               /\ bus' = bus
               /\ last_content' = last_content]_vars

C13_Witness ==
    /\ wpc[W] = "wait"
    /\ received > 0
    /\ config.retry_max > 0
    /\ attempt[W] = config.retry_max
    /\ Emitted = <<>>

\* C14: no backoff sleep is longer than 200 ms, whatever
\* retry_initial_delay_ms and retry_max are.
C14_BackoffAtMostCeiling ==
    wpc[W] = "backoff" => delay <= MaxDelay

\* C15: a read whose text is shorter than min_content_length or longer
\* than max_content_length sends no event.
C15_OutOfBoundsNotEmitted ==
    [][(/\ wpc[W] = "read"
        /\ \/ ByteLen(clipboard.content) < config.min_content_length
           \/ ByteLen(clipboard.content) > config.max_content_length)
       => bus' = bus]_vars

C15_Witness ==
    /\ wpc[W] = "wait"
    /\ last_read # NoContent
    /\ ByteLen(last_read) > config.max_content_length
    /\ Emitted = <<>>

\* C16: every event sent has min_content_length <= content_length <
\* max_content_length.
C16_LengthInclusiveExclusive ==
    \A i \in DOMAIN Emitted :
        /\ config.min_content_length <= Emitted[i].content_length
        /\ Emitted[i].content_length < config.max_content_length

\* C17: a read whose text is empty after trimming sends no event, for
\* every configuration.
C17_BlankNotEmitted ==
    [][(wpc[W] = "read" /\ Trim(clipboard.content) = <<>>) => bus' = bus]_vars

C17_Witness ==
    /\ wpc[W] = "wait"
    /\ last_read = <<" ">>
    /\ config.min_content_length = 0
    /\ ~config.ignore_short_content
    /\ Emitted = <<>>

\* No two events sent one after the other carry the same content.
ConsecutiveDiffer ==
    \A i \in DOMAIN Emitted :
        i > 1 => Emitted[i].content # Emitted[i - 1].content

\* C18: with ignore_duplicates set, a read that returns the text the read
\* before it returned sends no event (the two reads send one event, not
\* two), and no two events sent one after the other carry equal content.
C18_DuplicateSuppressed ==
    [][config.ignore_duplicates =>
          /\ (wpc[W] = "read" /\ last_read = clipboard.content) => bus' = bus
          /\ ConsecutiveDiffer']_vars

\* Two reads returned the same text: the first sent the event, the second,
\* later, sent nothing.
C18_Witness ==
    /\ config.ignore_duplicates
    /\ wpc[W] = "wait"
    /\ received = 2
    /\ attempt[W] < config.retry_max
    /\ Len(Emitted) = 1
    /\ Emitted[1].content = last_read
    /\ Emitted[1].gen = clipboard.gen
    /\ Emitted[1].timestamp < last_emit

\* C20: a worker has sent at most as many events as it has received pulses;
\* with no pulse received it has sent none.
C20_PulseBeforeEmission ==
    Cardinality({i \in DOMAIN Emitted : Emitted[i].by = W}) <= received

C20_Witness ==
    /\ received = 1
    /\ Len(Emitted) = 1
    /\ Emitted[1].by = W

\* C19: the events on a bus are in the order in which they were accepted
\* (created and timestamped), across starts and stops of the monitor.
C19_PublishedInAcceptanceOrder ==
    \A m \in Monitors : \A i, j \in DOMAIN bus[m] :
        i < j => bus[m][i].seq < bus[m][j].seq

\* The events sent on the session's bus since its receiver subscribed that
\* the receiver has not moved past.
Unread(s) == Len(bus[sessMon[s]]) - (Pos(s) - 1)

\* C21: publishing never waits for a subscriber.  Whenever a worker has an
\* event to send, the send can be taken, and it takes the worker back to its
\* wait for the next pulse, however far behind the receivers are and whether
\* or not they ever read.
C21_PublishNeverWaits ==
    \A s \in Sessions : wpc[s] = "emit" => ENABLED Publish(s, TRUE)

\* A worker is about to send while a receiver that has never read has as
\* many events left to read as the bus retains.
C21_Witness ==
    \E s, u \in 1..nsess :
        /\ wpc[s] = "emit"
        /\ sessMon[u] = sessMon[s]
        /\ sub[u].ahead = 0
        /\ Unread(u) >= Capacity

\* What a receiver has been given accounts for everything sent since it
\* subscribed: received + skipped + still to read = sent.
Accounted(s) ==
    Len(sub[s].got) + sub[s].skipped + Unread(s)
        = Len(bus[sessMon[s]]) - subStart[s]

\* C22: a receiver that has fallen behind by more than the bus retains is
\* told, by its next recv(), the number of events it skipped, and goes on
\* from the oldest retained event, which it can receive at once; no other
\* receiver is touched; and for every receiver received + skipped accounts
\* for what was sent since it subscribed.
C22_LagCountsSkipped ==
    [][/\ \A s \in 1..nsess' : Accounted(s)'
       /\ \A s \in 1..nsess :
            (Lagged(s) /\ HandleRecv(s)) =>
               /\ Unread(s) > Capacity
               /\ sub'[s].skipped = sub[s].skipped + (Unread(s) - Capacity)
               /\ sub'[s].got = sub[s].got
               /\ Pos(s)' = Oldest(sessMon[s])
               /\ Ready(s)'
               /\ \A u \in Sessions \ {s} : sub'[u] = sub[u]]_vars

\* One receiver was told of a skipped event and then received the oldest
\* retained one; another receiver of the same bus received with no lag.
C22_Witness ==
    \E s, u \in 1..nsess :
        /\ s # u
        /\ sessMon[s] = sessMon[u]
        /\ sub[s].skipped > 0
        /\ sub[s].got # <<>>
        /\ sub[u].skipped = 0
        /\ sub[u].got # <<>>

\* C30: the receiver an earlier start returned receives none of the events
\* published by the worker of a later session of the same monitor.
C30_EarlierReceiverHearsNoLaterSession ==
    \A s \in 1..nsess : \A i \in DOMAIN sub[s].got :
        sub[s].got[i].by <= s

\* The monitor has been stopped since it started the session.
StoppedSession(s) == s \in 1..nsess /\ ~Active(s)

\* C24: after stop the worker of the session ends, though stop joins no
\* worker: once the control task has torn down, the session's pulse sender
\* is dropped, and the worker then leaves its wait for the next pulse and
\* returns.
C24_WorkerEndsAfterStop ==
    /\ [](\A s \in Sessions : ctl[s] \in {"joining", "done"} => ~ctx[s].worker_tx)
    /\ \A s \in Sessions :
          StoppedSession(s) ~> (wpc[s] \in {"stopped", "failed"})

\* A worker that waited for pulses has returned after the stop.
C24_Witness ==
    \E s \in Sessions :
        /\ StoppedSession(s)
        /\ lastcall[sessMon[s]] = "stop_ok"
        /\ wpc[s] = "stopped"
        /\ ctl[s] = "done"

\* C25: only the closing of its pulse channel by a stop ends the worker: a
\* worker that has returned belongs to a session that was stopped, and its
\* pulse sender has been dropped.
C25_OnlyStopEndsWorker ==
    \A s \in Sessions :
        wpc[s] \in {"stopped", "failed"} =>
            StoppedSession(s) /\ ~ctx[s].worker_tx

\* C26: while a session is active, each WM_CLIPBOARDUPDATE its observer
\* takes from the queue makes exactly one send on the pulse channel of the
\* current context (the worker, if alive, has one more pulse queued and no
\* other channel changes), the observer stays in its loop, and the message
\* can always be taken (as far as the pulses are counted).
C26_OnePulsePerNotification ==
    [][\A s \in Sessions :
          LET g == GLOBAL_CONTEXT IN
          (Active(s) /\ obs[s] = "loop" /\ msgq[s] > 0) =>
             /\ (g # 0 => pulses[g] < MaxPulses) => ENABLED ObserverGetMessage(s)
             /\ ObserverGetMessage(s) =>
                  /\ MESSAGE_LOOP_RUNNING
                  /\ g # 0
                  /\ ctx[g].worker_tx
                  /\ obs'[s] = "loop"
                  /\ msgq'[s] = msgq[s] - 1
                  /\ WorkerAlive(g) => pulses'[g] = pulses[g] + 1
                  /\ \A u \in Sessions \ {g} : pulses'[u] = pulses[u]]_vars

\* C23: a task whose bus is closed is never left waiting: its recv() returns
\* what is still retained for it and then the end of the stream, at which
\* the task ends; and once a session's monitor has been stopped every sender
\* of its bus is dropped in the end and the session's task ends.
C23_ClosedBusEndsTask ==
    /\ [](\A s \in Sessions :
            (proc[s].pc = "recv" /\ BusClosed(sessMon[s])) => ENABLED TaskRecv(s))
    /\ [][\A s \in Sessions :
            (BusClosed(sessMon[s]) /\ TaskRecv(s)) =>
                IF Ready(s) \/ Lagged(s)
                THEN sub'[s] = AfterRecv(s) /\ TaskAlive(s)'
                ELSE proc'[s].pc = "done"]_vars
    /\ \A s \in Sessions :
          (s \in 1..nsess /\ lastcall[sessMon[s]] = "stop_ok")
              ~> (BusClosed(sessMon[s]) /\ proc[s].pc = "done")

\* A task that was waiting in recv() on a stopped monitor's bus has ended,
\* with nothing left for it to read.
C23_Witness ==
    \E s \in 1..nsess :
        /\ lastcall[sessMon[s]] = "stop_ok"
        /\ BusClosed(sessMon[s])
        /\ proc[s].pc = "done"
        /\ sub[s].got # <<>>
        /\ Unread(s) = 0

\* The categories in the order detect tries them; PlainText is what is left.
Order == <<"Url", "Email", "Financial", "DateTime", "Phone", "Code", "Address">>

\* The rule of a category, applied to a trimmed text.
Rule(cat, c) ==
    CASE cat = "Url" -> IsUrl(c)
      [] cat = "Email" -> IsEmail(c)
      [] cat = "Financial" -> IsFinancial(c)
      [] cat = "DateTime" -> IsDateTime(c)
      [] cat = "Phone" -> IsPhone(c)
      [] cat = "Code" -> IsCode(c)
      [] cat = "Address" -> IsAddress(c)

\* C27: detect gives every text exactly one category, the first in the order
\* Url, Email, Financial, DateTime, Phone, Code, Address whose rule matches
\* the trimmed text, and PlainText exactly when no rule matches; a text that
\* is shaped both like a date and like a phone number is DateTime.
C27_FirstMatchWins ==
    detected # "none" =>
        LET c == Trim(input)
            hits == {n \in DOMAIN Order : Rule(Order[n], c)}
        IN /\ detected \in {Order[n] : n \in DOMAIN Order} \cup {"PlainText"}
           /\ (detected = "PlainText") = (hits = {})
           /\ hits # {} =>
                 detected = Order[CHOOSE n \in hits : \A k \in hits : n <= k]
           /\ IsDateTime(c) /\ IsPhone(c) => detected = "DateTime"

C27_Witness ==
    /\ input = DateIso
    /\ IsDateTime(Trim(input)) /\ IsPhone(Trim(input))
    /\ detected = "DateTime"

\* C28: a street address with at least 2 address markers that no earlier rule
\* claims is Address, whether written with Chinese markers or in English
\* ("123 Main Street, New York"); a text with fewer than 2 markers is not.
C28_StreetAddressIsAddress ==
    detected # "none" =>
        /\ input \in {AddressChinese, AddressEnglish} => detected = "Address"
        /\ input # AddressEnglish /\ ~IsAddress(Trim(input)) =>
              detected # "Address"

C39_PhoneRuleExact ==
    detected # "none" =>
        LET c == Trim(input)
            digits == Cardinality({i \in DOMAIN c : c[i] \in Digit})
            shaped == /\ 7 <= digits /\ digits <= 15
                      /\ \A i \in DOMAIN c :
                            c[i] \in Digit \cup {"+", "-", "(", ")", " "}
                      /\ \A i \in DOMAIN c : c[i] # ":"
        IN /\ IsPhone(c) = shaped
           /\ detected = "Phone" => shaped
           /\ digits \in {6, 16} => detected # "Phone"
           /\ (\E i \in DOMAIN c : c[i] = ":") => detected # "Phone"

C39_Witness ==
    /\ Len(input) = 16 /\ \A i \in DOMAIN input : input[i] \in Digit
    /\ detected = "PlainText"

\* C40: a text that holds a keyword of the code rule in any letter case and
\* matches no earlier rule is Code; a text without a keyword is Code only
\* with at least 5 lines and more than 2 parentheses per 100 characters.
C40_CodeKeywordsAnyCase ==
    detected # "none" =>
        LET c == Trim(input)
            earlier == IsUrl(c) \/ IsEmail(c) \/ IsFinancial(c)
                          \/ IsDateTime(c) \/ IsPhone(c)
            keyword == \E kw \in code_keywords \cup sql_keywords :
                          Contains(LowerCase(c), LowerCase(kw))
        IN /\ keyword /\ ~earlier => detected = "Code"
           /\ detected = "Code" /\ ~keyword =>
                 /\ LineCount(c) >= 5
                 /\ 100 * CountIn(c, {"(", ")"}) > 2 * Len(c)

\* C31: the first read attempt of a cycle starts at least debounce_ms after
\* the read of the cycle before it returned, whether that read gave a text
\* that was sent, a text that was filtered out, or nothing.
C31_CyclesSpaced ==
    wpc[W] \in {"read", "backoff"} =>
        start_time >= last_emit + config.debounce_ms

C31_Witness ==
    /\ wpc[W] = "read"
    /\ received = 2
    /\ attempt[W] = 0
    /\ start_time = last_emit + config.debounce_ms
    /\ last_emit > 0

\* C32: in one cycle the sleep after the i-th failed attempt (i from 0) lasts
\* min(max(retry_initial_delay_ms, 1) * 2^i, 200) ms, and a successful
\* attempt is followed by no sleep.
C32_BackoffDoubles ==
    [][/\ (wpc[W] = "backoff" /\ wpc'[W] = "read") =>
             LET initial == IF config.retry_initial_delay_ms > 1
                            THEN config.retry_initial_delay_ms ELSE 1
                 doubled == initial * 2^(attempt[W])
             IN slept' - slept = IF doubled < 200 THEN doubled ELSE 200
       /\ (wpc[W] = "read" /\ wpc'[W] = "wait") => slept' = slept /\ now' = now
      ]_vars

C33_TeardownCompletes ==
    \A s \in Sessions :
        StoppedSession(s) ~> (~ObserverAlive(s) /\ ctl[s] = "done")

\* C34: start creates the subscription, then starts the worker, then the
\* observer: a session's observer exists only when its worker was started,
\* its worker only when its subscription was made; the window procedure
\* finds the pulse sender only when the worker holds the receiver; and
\* every event a session's worker publishes lies after the place where the
\* session's subscription was made.
C34_SubscriptionWorkerObserver ==
    \A s \in Sessions :
        /\ obs[s] # "none" => wpc[s] # "none"
        /\ wpc[s] # "none" => s \in 1..nsess
        /\ (GLOBAL_CONTEXT = s /\ ctx[s].worker_tx) => wpc[s] # "none"
        /\ pulses[s] > 0 => wpc[s] # "none"
        /\ s \in 1..nsess =>
              \A i \in DOMAIN bus[sessMon[s]] :
                  bus[sessMon[s]][i].by = s => i > subStart[s]

\* The receiver returned by start has received an event that the worker of
\* its session published.
C34_Witness ==
    \E s \in 1..nsess :
        /\ Len(sub[s].got) > 0
        /\ sub[s].got[1].by = s
        /\ obs[s] # "none"

\* C38: the history holds at most 100 items, newest first: its first item
\* is the change handled last, each item is older than the one before it,
\* and a change handled while the history is full evicts the oldest item
\* and no other.
C38_HistoryBoundedNewestFirst ==
    [][/\ Len(history') <= 100
       /\ history' # <<>> => history'[1].id = nhandled'
       /\ \A i \in 1..(Len(history') - 1) :
             history'[i].id > history'[i + 1].id
       /\ (Len(history) = 100 /\ nhandled' # nhandled) =>
             /\ Len(history') = 100
             /\ \A i \in 1..99 : history'[i + 1] = history[i]
       /\ (Len(history) < 100 /\ nhandled' # nhandled) =>
             \A i \in 1..Len(history) : history'[i + 1] = history[i]
      ]_vars

C38_Witness ==
    /\ Len(history) = 100
    /\ nhandled = 101
    /\ history[1].id = 101
    /\ history[100].id = 2

\* The access to a static mut (GLOBAL_CONTEXT, MESSAGE_LOOP_HANDLE) that a
\* thread makes with its next statement: start_monitoring assigns both,
\* run_windows_message_loop and window_proc read GLOBAL_CONTEXT,
\* stop_windows_monitoring reads it, assigns it and takes the handle.  None
\* of them is made with a lock held, and neither static is an atomic.
Accesses ==
    LET At(t, st, w) == [thread |-> t, static |-> st, write |-> w] IN
    (IF spc = "context"
     THEN {At(<<"caller", 0>>, "GLOBAL_CONTEXT", TRUE)} ELSE {})
    \cup (IF spc = "observer"
          THEN {At(<<"caller", 0>>, "MESSAGE_LOOP_HANDLE", TRUE)} ELSE {})
    \cup {At(Observer(s), "GLOBAL_CONTEXT", FALSE) :
             s \in {u \in Sessions : obs[u] \in {"record", "proc"}}}
    \cup {At(Control(s), "GLOBAL_CONTEXT", FALSE) :
             s \in {u \in Sessions : ctl[u] = "stop_read"}}
    \cup {At(Control(s), "GLOBAL_CONTEXT", TRUE) :
             s \in {u \in Sessions : ctl[u] = "stop_clear"}}
    \cup {At(Control(s), "MESSAGE_LOOP_HANDLE", TRUE) :
             s \in {u \in Sessions : ctl[u] = "stop_handle"}}

\* Two threads are each about to access the same static, one of them
\* writing, with nothing that orders the two accesses.
Race ==
    \E a, b \in Accesses :
        /\ a.thread # b.thread
        /\ a.static = b.static
        /\ a.write \/ b.write

\* C35: no interleaving of a clipboard notification, start and stop reaches
\* a state where one thread reads or writes shared state while another
\* writes it, unless a lock or an atomic orders the two accesses.
C35_NoUnsynchronizedAccess == ~Race

\* The threads that hold the lock of a monitor context.
Holders == {lock[g] : g \in Sessions} \ {<<>>}

\* The threads whose next statement sleeps, joins a thread, waits on a
\* channel or for a message, or calls the OS for a window or the clipboard.
Blocking ==
    {Observer(s) : s \in {u \in Sessions :
                             obs[u] \in {"spawned", "listen", "loop"}}}
    \cup {Control(s) : s \in {u \in Sessions :
                                 ctl[u] \in {"waiting", "stop_window",
                                             "joining"}}}

\* C36: in no reachable state does a thread that holds the lock of the
\* monitor context sleep, join a thread, wait on a channel, or call the OS
\* for a window or the clipboard.
C36_NoLockAcrossBlockingCall == Holders \cap Blocking = {}

====
